---------------------------- MODULE Spec2Model ----------------------------
(***************************************************************************)
(* Model of HugoDocumenter (the page-tree driver, the page builder's       *)
(* traversal and the filename/link resolver) of api-documenter-hugo.       *)
(*                                                                         *)
(* An API item is a record; the item tree is a nested record whose root    *)
(* is the ApiModel.  An item is identified by its index path from the root *)
(* (<<>> is the model, <<1>> its first package, <<1, 2>> that package's    *)
(* second entry point, ...), so parent and hierarchy are prefixes.         *)
(* Names are sequences of one-character strings, so that the conversions   *)
(* applied to them (scope stripping, filesystem-safe form) are computed    *)
(* character by character; paths and URLs are strings.                     *)
(***************************************************************************)
EXTENDS Integers, Sequences, FiniteSets, TLC

VARIABLES
    apiModel,        \* options.apiModel: the item tree (read-only during a run)
    documenterConfig,\* options.documenterConfig: NoConfig or a configuration record
    feature,         \* _pluginLoader.markdownDocumenterFeature is defined
    pc,              \* position inside generateFiles
    stack,           \* activation records of _writeApiItemPage, innermost last
    files,           \* the output folder: filename -> persisted page
    trace,           \* the run's observable events, in order
    links,           \* every <<item, urlDestination>> the builder generated in this run
    error,           \* the exception that ended the run, or NoError
    runNo,           \* number of the current run (1-based)
    prevWrites,      \* the write events of the previous completed run
    configuration,   \* CustomDocNodes._configuration (Undefined until first built)
    created,         \* number of TSDocConfiguration objects created in the process
    registrations,   \* the custom kinds registered in the process, in order
    returned,        \* the object each access to CustomDocNodes.configuration returned
    parentNode,      \* the DocNodeContainer under construction
    nodeError        \* the error of the last document-node operation, or ""

\* The state of the document-node layer.
nodeVars == <<configuration, created, registrations, returned, parentNode, nodeError>>

vars == <<apiModel, documenterConfig, feature, pc, stack, files, trace, links,
          error, runNo, prevWrites, nodeVars>>

-----------------------------------------------------------------------------
(* Bounds of the model *)

\* largest overload index given to the overloaded constructor and function
MaxOverloads == 2
\* largest number of entry points of the multi-entry-point package
MaxEntryPoints == 2
\* number of runs over the same tree that one behaviour holds
MaxRuns == 2
\* number of accesses to CustomDocNodes.configuration that one behaviour holds
MaxAccesses == 3
\* largest number of child nodes appended to one container
MaxChildren == 2

-----------------------------------------------------------------------------
(* Characters and names *)

LowerCase == {"a","b","c","d","e","f","g","h","i","j","k","l","m",
              "n","o","p","q","r","s","t","u","v","w","x","y","z"}
UpperCase == {"A","B","C","D","E","F","G","H","I","J","K","L","M",
              "N","O","P","Q","R","S","T","U","V","W","X","Y","Z"}
Digits == <<"0","1","2","3","4","5","6","7","8","9">>
DigitChars == {Digits[i] : i \in 1..Len(Digits)}

\* The characters a filename segment keeps: letters, digits, "_", "-", ".".
SafeChars == LowerCase \cup UpperCase \cup DigitChars \cup {"_", "-", "."}

RECURSIVE Str(_)
\* The string spelled by a sequence of one-character strings.
Str(cs) == IF cs = <<>> THEN "" ELSE Head(cs) \o Str(Tail(cs))

\* Utilities.getSafeFilenameForName: every character that is illegal in a
\* path segment is replaced by the escape character "_".
getSafeFilenameForName(name) ==
    [i \in 1..Len(name) |-> IF name[i] \in SafeChars THEN name[i] ELSE "_"]

RECURSIVE IndexOf(_, _, _)
\* Index of the first occurrence of character c in cs at or after i, else 0.
IndexOf(cs, c, i) ==
    IF i > Len(cs) THEN 0
    ELSE IF cs[i] = c THEN i ELSE IndexOf(cs, c, i + 1)

\* PackageName.getUnscopedName: "@scope/name" -> "name", "name" -> "name".
getUnscopedName(name) ==
    IF name # <<>> /\ name[1] = "@" /\ IndexOf(name, "/", 1) > 0
    THEN SubSeq(name, IndexOf(name, "/", 1) + 1, Len(name))
    ELSE name

\* PackageName.getUnscopedName parses its argument as a package name and
\* throws when it is not one: the message of the error, "" when the name
\* parses.  The characters of a package name are letters, digits, "-", "_"
\* and "."; it does not start with "." or "_"; a scope is followed by "/".
packageNameError(name) ==
    LET scoped == name # <<>> /\ name[1] = "@"
        slash == IndexOf(name, "/", 1)
        scope == IF scoped /\ slash > 0 THEN SubSeq(name, 2, slash - 1) ELSE <<>>
        unscoped == getUnscopedName(name)
        plain == scope \o unscoped
    IN  IF scoped /\ slash = 0 THEN "The scope must be followed by a slash"
        ELSE IF scoped /\ scope = <<>> THEN "The scope name cannot be empty"
        ELSE IF unscoped = <<>> THEN "The package name must not be empty"
        ELSE IF unscoped[1] \in {".", "_"}
             THEN "The package name starts with an invalid character"
        ELSE IF \E i \in 1..Len(scope) : scope[i] \in UpperCase
             THEN "The package scope must not contain upper case characters"
        ELSE IF \E i \in 1..Len(plain) : plain[i] \notin SafeChars
             THEN "The package name contains an invalid character"
        ELSE ""

-----------------------------------------------------------------------------
(* API items (the records of @microsoft/api-extractor-model that the       *)
(* documenter reads)                                                       *)

\* A reference held by a token or an extends clause: whether it carries a
\* canonicalReference, and the result of resolveDeclarationReference on it.
NoRef == [canonical |-> TRUE, resolved |-> FALSE, id |-> <<>>]
RefTo(id) == [canonical |-> TRUE, resolved |-> TRUE, id |-> id]
\* A reference token without a canonicalReference.
NoCanonicalReference == [canonical |-> FALSE, resolved |-> FALSE, id |-> <<>>]

\* An excerpt token: literal text, or a reference to a declaration.
ContentToken(text) == [kind |-> "Content", text |-> text, ref |-> NoRef]
ReferenceToken(text, ref) == [kind |-> "Reference", text |-> text, ref |-> ref]

Item(kind, name, overloadIndex, members) ==
    [kind          |-> kind,
     name          |-> name,
     overloadIndex |-> overloadIndex,   \* 0: the kind carries no parameter list
     members       |-> members,
     isAbstract    |-> FALSE,
     isEvent       |-> FALSE,
     releaseTag    |-> "Public",
     isDeprecated  |-> FALSE,           \* tsdocComment.deprecatedBlock
     decorators    |-> 0,               \* number of @decorator blocks of the comment
     hasSummary    |-> FALSE,           \* tsdocComment with a summary section
     hasRemarks    |-> FALSE,           \* tsdocComment.remarksBlock
     hasThrows     |-> FALSE,           \* tsdocComment has @throws blocks
     examples      |-> 0,               \* number of @example blocks of the comment
     parameters    |-> 0,               \* number of parameters of a parameter list
     hasExtends    |-> FALSE,           \* a class with an extends clause
     extendsRef    |-> NoRef,           \* the base class, when it is in the model
     tokens        |-> <<>>]            \* the tokens of the item's type excerpt

\* Kinds that mix in ApiParameterListMixin (they carry an overloadIndex).
ParameterListKinds ==
    {"Constructor", "ConstructSignature", "Function", "Method",
     "MethodSignature", "CallSignature", "IndexSignature"}

\* ApiItem.displayName: the name, or a fixed label for the unnamed kinds.
displayName(item) ==
    CASE item.kind = "CallSignature"      -> <<"(","c","a","l","l",")">>
      [] item.kind = "Constructor"        ->
             <<"(","c","o","n","s","t","r","u","c","t","o","r",")">>
      [] item.kind = "ConstructSignature" -> <<"(","n","e","w",")">>
      [] item.kind = "IndexSignature"     ->
             <<"(","i","n","d","e","x","e","r",")">>
      [] item.kind = "Model"              -> <<"(","m","o","d","e","l",")">>
      [] OTHER                            -> item.name

RECURSIVE ItemAt(_, _)
\* The item of tree `root` at index path `id`.
ItemAt(root, id) ==
    IF id = <<>> THEN root ELSE ItemAt(root.members[Head(id)], Tail(id))

RECURSIVE IdsOf(_)
\* The index paths of all items of the tree `root`.
IdsOf(root) ==
    {<<>>} \cup UNION {{<<i>> \o p : p \in IdsOf(root.members[i])} :
                         i \in 1..Len(root.members)}

\* The item of the documenter's model with index path id, and all its ids.
ItemOf(id) == ItemAt(apiModel, id)
AllIds == IdsOf(apiModel)

\* ApiItem.parent and ApiItem.getHierarchy(): root first, the item last.
ParentId(id) == SubSeq(id, 1, Len(id) - 1)
getHierarchy(id) == [k \in 1..(Len(id) + 1) |-> SubSeq(id, 1, k - 1)]

-----------------------------------------------------------------------------
(* Filename/link resolver *)

\* The hard-coded _baseUrl of the documenter.
baseUrl == "/docs"

\* qualifiedName with the overload index appended as it is, not renumbered.
qualifiedName_SameIndex(item) ==
    LET safe == Str(getSafeFilenameForName(displayName(item)))
        suffixed == IF item.kind \in ParameterListKinds /\ item.overloadIndex > 1
                    THEN safe \o "_" \o ToString(item.overloadIndex)
                    ELSE safe
    IN  IF item.kind = "Variable" THEN "var_" \o suffixed ELSE suffixed

\* The segment of a hierarchy item that has no case of its own in the
\* resolver's switch: the safe display name, "_<overloadIndex - 1>" for an
\* overload after the first, "var_" in front for a variable.
qualifiedName(item) ==
    LET safe == Str(getSafeFilenameForName(displayName(item)))
        suffixed == IF item.kind \in ParameterListKinds /\ item.overloadIndex > 1
                    THEN safe \o "_" \o ToString(item.overloadIndex - 1)
                    ELSE safe
    IN  IF item.kind = "Variable" THEN "var_" \o suffixed ELSE suffixed

RECURSIVE baseNameAfter_EnumMemberSegment(_, _)
\* The loop with the enum member handled by the default case of the switch.
baseNameAfter_EnumMemberSegment(apiItem, k) ==
    IF k = 0 THEN ""
    ELSE LET baseName == baseNameAfter_EnumMemberSegment(apiItem, k - 1)
             hierarchyId == getHierarchy(apiItem)[k]
             hierarchyItem == ItemOf(hierarchyId)
         IN  CASE hierarchyItem.kind = "Model" -> baseName
               [] hierarchyItem.kind = "EntryPoint" ->
                    IF Len(hierarchyItem.name) > 0
                    THEN baseName \o "/" \o
                         Str(getSafeFilenameForName(getUnscopedName(hierarchyItem.name)))
                    ELSE baseName \o "/_root"
               [] hierarchyItem.kind = "Package" ->
                    LET pkg == Str(getSafeFilenameForName(
                                       getUnscopedName(displayName(hierarchyItem))))
                    IN  IF hierarchyId = apiItem THEN pkg \o "/_root" ELSE pkg
               [] OTHER -> baseName \o "/" \o qualifiedName(hierarchyItem)

RECURSIVE baseNameAfter(_, _)
\* The value of baseName after the resolver's loop has handled the first k
\* items of apiItem's hierarchy.
baseNameAfter(apiItem, k) ==
    IF k = 0 THEN ""
    ELSE LET baseName == baseNameAfter(apiItem, k - 1)
             hierarchyId == getHierarchy(apiItem)[k]
             hierarchyItem == ItemOf(hierarchyId)
         IN  CASE hierarchyItem.kind \in {"Model", "EnumMember"} -> baseName
               [] hierarchyItem.kind = "EntryPoint" ->
                    IF Len(hierarchyItem.name) > 0
                    THEN baseName \o "/" \o
                         Str(getSafeFilenameForName(getUnscopedName(hierarchyItem.name)))
                    ELSE baseName \o "/_root"
               [] hierarchyItem.kind = "Package" ->
                    LET pkg == Str(getSafeFilenameForName(
                                       getUnscopedName(displayName(hierarchyItem))))
                    IN  IF hierarchyId = apiItem THEN pkg \o "/_root" ELSE pkg
               [] OTHER -> baseName \o "/" \o qualifiedName(hierarchyItem)

\* The resolver without the extra _root of the package being resolved.
_getFilenameForApiItem_NoExtraRoot(apiItem) ==
    IF ItemOf(apiItem).kind = "Model"
    THEN "_index.md"
    ELSE IF ItemOf(apiItem).kind = "Package"
    THEN Str(getSafeFilenameForName(getUnscopedName(displayName(ItemOf(apiItem)))))
         \o "/_index.md"
    ELSE baseNameAfter(apiItem, Len(apiItem) + 1) \o "/_index.md"

\* HugoDocumenter._getFilenameForApiItem
_getFilenameForApiItem(apiItem) ==
    IF ItemOf(apiItem).kind = "Model"
    THEN "_index.md"
    ELSE baseNameAfter(apiItem, Len(apiItem) + 1) \o "/_index.md"

\* The error that _getFilenameForApiItem(apiItem) throws, "" when it returns:
\* the error of the first getUnscopedName call of its loop that throws.
_getFilenameError(apiItem) ==
    LET hierarchy == getHierarchy(apiItem)
        parsed(k) == LET hierarchyItem == ItemOf(hierarchy[k])
                     IN  CASE hierarchyItem.kind = "EntryPoint"
                                  /\ Len(hierarchyItem.name) > 0 -> hierarchyItem.name
                           [] hierarchyItem.kind = "Package" -> displayName(hierarchyItem)
                           [] OTHER -> <<"x">>
        failing == {k \in 1..Len(hierarchy) : packageNameError(parsed(k)) # ""}
    IN  IF ItemOf(apiItem).kind = "Model" \/ failing = {} THEN ""
        ELSE packageNameError(parsed(CHOOSE k \in failing : \A j \in failing : k <= j))

\* HugoDocumenter._getLinkFilenameForApiItem
_getLinkFilenameForApiItem(apiItem) ==
    baseUrl \o "/" \o _getFilenameForApiItem(apiItem)

-----------------------------------------------------------------------------
(* The item trees the runs are checked on *)

N_widgets == <<"@","s","c","o","p","e","/","w","i","d","g","e","t","s">>
N_Widget  == <<"W","i","d","g","e","t">>
N_render  == <<"r","e","n","d","e","r">>
N_size    == <<"s","i","z","e">>
N_lib     == <<"l","i","b">>
N_Base    == <<"B","a","s","e">>
N_Derived == <<"D","e","r","i","v","e","d">>
N_run     == <<"r","u","n">>
N_stop    == <<"s","t","o","p">>
N_changed == <<"c","h","a","n","g","e","d">>
N_IShape  == <<"I","S","h","a","p","e">>
N_area    == <<"a","r","e","a">>
N_label   == <<"l","a","b","e","l">>
N_Color   == <<"C","o","l","o","r">>
N_Red     == <<"R","e","d">>
N_Green   == <<"G","r","e","e","n">>
N_x       == <<"x">>
N_var_x   == <<"v","a","r","_","x">>
N_Alias   == <<"A","l","i","a","s">>
N_ns      == <<"n","s">>
N_Inner   == <<"I","n","n","e","r">>
N_deep    == <<"d","e","e","p">>
N_Orphan  == <<"O","r","p","h","a","n">>
N_make    == <<"m","a","k","e">>
N_Foo     == <<"F","o","o">>
N_f       == <<"f">>
N_make_1  == <<"m","a","k","e","_","1">>
N_Twice   == <<"T","w","i","c","e">>
N_Both    == <<"B","o","t","h">>
N_nest    == <<"n","e","s","t">>
N_a_b     == <<"a","/","b">>

\* The import path of the i-th entry point of a package: "" for the first
\* (the default entry point), "e<i>" for the others.
EntryPointName(i) == IF i = 1 THEN <<>> ELSE <<"e", Digits[i + 1]>>

\* n overloads of one function-like declaration, overload indexes 1..n; the
\* i-th overload takes i - 1 parameters.
Overloads(kind, name, n) ==
    [i \in 1..n |-> [Item(kind, name, i, <<>>) EXCEPT !.parameters = i - 1]]

\* The package of the example: @scope/widgets, one entry point "", a class
\* Widget with n overloaded constructors, a method and a property.
WidgetsPackage(n) ==
    Item("Package", N_widgets, 0, <<
        Item("EntryPoint", <<>>, 0, <<
            [Item("Class", N_Widget, 0,
                  Overloads("Constructor", <<>>, n) \o <<
                  Item("Method", N_render, 1, <<>>),
                  Item("Property", N_size, 0, <<>>) >>)
             EXCEPT !.examples = 3] >>) >>)

\* The members of the default entry point of package lib, which is the first
\* package of its model: their index paths start with <<1, 1>>.
LibRootMembers(n) == <<
    [Item("Class", N_Base, 0, <<
        [Item("Method", N_run, 1, <<>>)
         EXCEPT !.examples = 2, !.hasRemarks = TRUE, !.parameters = 1,
                !.isDeprecated = TRUE, !.decorators = 2],
        [Item("Property", N_changed, 0, <<>>) EXCEPT !.isEvent = TRUE] >>)
     EXCEPT !.isAbstract = TRUE, !.releaseTag = "Beta", !.hasSummary = TRUE,
            !.hasRemarks = TRUE, !.examples = 1, !.isDeprecated = TRUE],
    [Item("Class", N_Derived, 0, <<
        Item("Constructor", <<>>, 1, <<>>),
        Item("Method", N_run, 1, <<>>),
        [Item("Property", N_size, 0, <<>>)
         EXCEPT !.tokens = <<ReferenceToken("Color", RefTo(<<1, 1, 4>>)),
                             ContentToken(" | "),
                             ReferenceToken("this", NoCanonicalReference)>>],
        Item("Method", N_stop, 1, <<>>) >>)
     EXCEPT !.hasExtends = TRUE, !.extendsRef = RefTo(<<1, 1, 1>>),
            !.tokens = <<ReferenceToken("Base", RefTo(<<1, 1, 1>>))>>,
            !.decorators = 1, !.hasRemarks = TRUE],
    Item("Interface", N_IShape, 0, <<
        Item("MethodSignature", N_area, 1, <<>>),
        Item("PropertySignature", N_label, 0, <<>>),
        Item("CallSignature", <<>>, 1, <<>>),
        Item("IndexSignature", <<>>, 1, <<>>),
        Item("ConstructSignature", <<>>, 1, <<>>) >>),
    Item("Enum", N_Color, 0, <<
        [Item("EnumMember", N_Red, 0, <<>>) EXCEPT !.releaseTag = "Alpha"],
        Item("EnumMember", N_Green, 0, <<>>) >>),
    Item("Variable", N_x, 0, <<>>),
    [Item("TypeAlias", N_Alias, 0, <<>>)
     EXCEPT !.tokens = <<ReferenceToken("Base", RefTo(<<1, 1, 1>>)),
                         ContentToken(" | "),
                         ReferenceToken("Color.Red", RefTo(<<1, 1, 4, 1>>)),
                         ContentToken(" | "),
                         ReferenceToken("External", NoRef)>>],
    Item("Namespace", N_ns, 0, <<
        Item("Class", N_Inner, 0, <<>>),
        Item("Namespace", N_deep, 0, <<
            Item("Function", N_f, 1, <<>>) >>) >>),
    [Item("Class", N_Orphan, 0, << Item("Method", N_stop, 1, <<>>) >>)
     EXCEPT !.hasExtends = TRUE,
            !.tokens = <<ReferenceToken("External", NoRef)>>] >>
    \o Overloads("Function", N_make, n)

\* The members of entry point i >= 2 of package lib.  The second one holds
\* declarations that TypeScript merges under one name (class Foo and
\* namespace Foo), a function named like a variable's segment, two
\* overloads of make next to a function make_1, a type alias that names
\* class Foo twice ("Foo | Foo") and one that names class Foo and namespace
\* Foo by the same text ("Foo | typeof Foo").
LibEntryMembers(i) ==
    IF i = 2
    THEN << Item("Class", N_Foo, 0, <<>>),
            Item("Namespace", N_Foo, 0, << Item("Function", N_f, 1, <<>>) >>),
            Item("Variable", N_x, 0, <<>>),
            Item("Function", N_var_x, 1, <<>>),
            Item("Function", N_make, 1, <<>>),
            [Item("Function", N_make, 2, <<>>) EXCEPT !.parameters = 1],
            Item("Function", N_make_1, 1, <<>>),
            [Item("TypeAlias", N_Twice, 0, <<>>)
             EXCEPT !.tokens = <<ReferenceToken("Foo", RefTo(<<1, 2, 1>>)),
                                 ContentToken(" | "),
                                 ReferenceToken("Foo", RefTo(<<1, 2, 1>>))>>],
            [Item("TypeAlias", N_Both, 0, <<>>)
             EXCEPT !.tokens = <<ReferenceToken("Foo", RefTo(<<1, 2, 1>>)),
                                 ContentToken(" | typeof "),
                                 ReferenceToken("Foo", RefTo(<<1, 2, 2>>))>>] >>
    ELSE << Item("Function", N_f, 1, <<>>) >>

LibPackage(e, n) ==
    Item("Package", N_lib, 0,
         [i \in 1..e |-> Item("EntryPoint", EntryPointName(i), 0,
                              IF i = 1 THEN LibRootMembers(n)
                              ELSE LibEntryMembers(i))])

\* A model holding only the example package.
TreeWidgets(n) == Item("Model", <<>>, 0, << WidgetsPackage(n) >>)

\* A model holding package lib with e entry points and the example package.
TreeLib(e, n) == Item("Model", <<>>, 0, << LibPackage(e, n), WidgetsPackage(n) >>)

\* A model holding a package whose second entry point has a nested import
\* path, "a/b".
TreeNested ==
    Item("Model", <<>>, 0, <<
        Item("Package", N_nest, 0, <<
            Item("EntryPoint", <<>>, 0, << Item("Function", N_f, 1, <<>>) >>),
            Item("EntryPoint", N_a_b, 0, << Item("Function", N_f, 1, <<>>) >>) >>) >>)

Trees ==
    {TreeWidgets(n) : n \in 1..MaxOverloads}
    \cup {TreeLib(e, MaxOverloads) : e \in 1..MaxEntryPoints}
    \cup {TreeNested}

-----------------------------------------------------------------------------
(* Documenter configuration and plugin *)

\* documenterConfig === undefined
NoConfig ==
    [present |-> FALSE, plugin |-> "none", showInheritedMembers |-> FALSE,
     newlineKind |-> "none"]

\* A configuration file: the plugin it names ("none": no plugin; "keep": a
\* plugin whose pre-write hook leaves the event arguments alone; "rewrite":
\* a plugin whose hook rewrites the page text and the filename argument),
\* the showInheritedMembers switch and the newline kind.
Configs ==
    {NoConfig} \cup
    {[present |-> TRUE, plugin |-> p, showInheritedMembers |-> s, newlineKind |-> n] :
        p \in {"none", "keep", "rewrite"}, s \in BOOLEAN, n \in {"CrLf", "Lf"}}

\* options.outputFolder
outputFolder == "out"

NoError == ""

-----------------------------------------------------------------------------
(* Document nodes: the TSDocConfiguration that CustomDocNodes builds *)

\* The kinds and the allowable children that new TSDocConfiguration()
\* registers (BuiltInDocNodes.register of @microsoft/tsdoc).
BuiltInDocNodeKinds ==
    {"Block", "BlockTag", "CodeSpan", "Comment", "DeclarationReference",
     "ErrorText", "EscapedText", "Excerpt", "FencedCode", "HtmlAttribute",
     "HtmlEndTag", "HtmlStartTag", "InheritDocTag", "InlineTag", "LinkTag",
     "MemberIdentifier", "MemberReference", "MemberSelector", "MemberSymbol",
     "Paragraph", "ParamBlock", "ParamCollection", "PlainText", "Section",
     "SoftBreak"}
BuiltInAllowableChildren ==
    ({"Section"} \X {"FencedCode", "Paragraph", "HtmlStartTag", "HtmlEndTag"})
    \cup ({"Paragraph"} \X {"BlockTag", "CodeSpan", "ErrorText", "EscapedText",
                            "HtmlStartTag", "HtmlEndTag", "InlineTag", "LinkTag",
                            "PlainText", "SoftBreak"})

\* enum CustomDocNodeKind, in the order of the registerDocNodes call
CustomDocNodeKind ==
    <<"EmphasisSpan", "Heading", "NoteBox", "Table", "TableCell", "TableRow">>

\* CustomDocNodes._configuration === undefined
Undefined == [id |-> 0, docNodeKinds |-> {}, allowableChildren |-> {}, error |-> ""]

\* new TSDocConfiguration(): the object with identity id
TSDocConfiguration(id) ==
    [id |-> id, docNodeKinds |-> BuiltInDocNodeKinds,
     allowableChildren |-> BuiltInAllowableChildren, error |-> ""]

\* DocNodeManager.registerDocNodes: a kind is registered once.
registerDocNodes(config, kinds) ==
    IF config.error # "" THEN config
    ELSE IF \/ \E i \in 1..Len(kinds) : kinds[i] \in config.docNodeKinds
            \/ \E i, j \in 1..Len(kinds) : i # j /\ kinds[i] = kinds[j]
    THEN [config EXCEPT !.error = "The DocNodeKind was already registered"]
    ELSE [config EXCEPT !.docNodeKinds = @ \cup {kinds[i] : i \in 1..Len(kinds)}]

\* DocNodeManager.registerAllowableChildren: parent and children are
\* registered kinds.
registerAllowableChildren(config, parentKind, childKinds) ==
    IF config.error # "" THEN config
    ELSE IF ({parentKind} \cup childKinds) \subseteq config.docNodeKinds
    THEN [config EXCEPT !.allowableChildren = @ \cup ({parentKind} \X childKinds)]
    ELSE [config EXCEPT !.error = "The DocNodeKind was not registered"]

\* Variant: Section is left with its built-in children.
BuildConfiguration_SectionNotWidened(id) ==
    registerAllowableChildren(
        registerAllowableChildren(
            registerDocNodes(TSDocConfiguration(id), CustomDocNodeKind),
            "EmphasisSpan", {"PlainText", "SoftBreak"}),
        "Paragraph", {"EmphasisSpan"})

\* The configuration that the getter builds when none is cached.
BuildConfiguration(id) ==
    registerAllowableChildren(
        registerAllowableChildren(
            registerAllowableChildren(
                registerDocNodes(TSDocConfiguration(id), CustomDocNodeKind),
                "EmphasisSpan", {"PlainText", "SoftBreak"}),
            "Section", {"Heading", "NoteBox", "Table"}),
        "Paragraph", {"EmphasisSpan"})

\* Variant: the getter builds a configuration on every access.
configurationGetter_NoCache(cached, n) ==
    LET built == BuildConfiguration(n + 1)
    IN  [configuration |-> built, created |-> n + 1,
         registered |-> CustomDocNodeKind, error |-> built.error]

\* get CustomDocNodes.configuration, called with the cached object and the
\* number of objects created so far: the cached object after the call
\* (which is the one returned), the number of objects created and the
\* custom kinds registered by the call.
configurationGetter(cached, n) ==
    IF cached.id = 0
    THEN LET built == BuildConfiguration(n + 1)
         IN  IF built.error = ""
             THEN [configuration |-> built, created |-> n + 1,
                   registered |-> CustomDocNodeKind, error |-> ""]
             ELSE [configuration |-> cached, created |-> n + 1,
                   registered |-> <<>>, error |-> built.error]
    ELSE [configuration |-> cached, created |-> n, registered |-> <<>>, error |-> ""]

\* DocNodeManager.isAllowedChild
isAllowedChild(config, parentKind, childKind) ==
    <<parentKind, childKind>> \in config.allowableChildren

\* The subclasses of DocNodeContainer: the nodes with appendNode.
DocNodeContainerKinds == {"Section", "Paragraph", "EmphasisSpan"}
NoContainer == [kind |-> "", nodes |-> <<>>]

\* The (parent kind, child kind) pairs of the appendNode, appendNodes,
\* appendNodeInParagraph and appendNodesInParagraph calls of the page
\* builder and of the node constructors it calls with child nodes.
BuilderAppends ==
    ({"Section"} \X {"NoteBox", "Paragraph", "FencedCode", "Heading", "Table"})
    \cup ({"Paragraph"} \X {"PlainText", "EmphasisSpan", "LinkTag", "CodeSpan"})
    \cup ({"EmphasisSpan"} \X {"PlainText"})

-----------------------------------------------------------------------------
(* Page content builder: the parts of a page that need no recursion *)

\* A document node: its kind, its text, the destination of a link node and
\* the rows of a table node.
Node(node, text) == [node |-> node, text |-> text, url |-> "", rows |-> <<>>]
LinkNode(text, apiItem) ==
    [node |-> "LinkTag", text |-> text,
     url |-> _getLinkFilenameForApiItem(apiItem), rows |-> <<>>]
TableNode(title, rows) == [node |-> "Table", text |-> title, url |-> "", rows |-> rows]

\* The kinds with a case in the title switch of _writeApiItemPage.
PageKinds ==
    {"Class", "EntryPoint", "Enum", "Interface", "Constructor",
     "ConstructSignature", "Method", "MethodSignature", "Function", "Model",
     "Namespace", "Package", "Property", "PropertySignature", "TypeAlias",
     "Variable"}

\* Kinds whose items are ApiDeclaredItems (they carry an excerpt).
DeclaredKinds ==
    {"Class", "Enum", "EnumMember", "Interface", "Constructor",
     "ConstructSignature", "Method", "MethodSignature", "Function",
     "Namespace", "Property", "PropertySignature", "TypeAlias", "Variable",
     "CallSignature", "IndexSignature"}

RECURSIVE scopedNameFrom(_, _)
\* ApiItem.getScopedNameWithinPackage: the display names of the item and of
\* its ancestors below the entry point, joined by ".".
scopedNameFrom(id, k) ==
    IF k > Len(id) THEN ""
    ELSE LET item == ItemOf(SubSeq(id, 1, k))
             rest == scopedNameFrom(id, k + 1)
         IN  IF item.kind \in {"Package", "EntryPoint"} THEN rest
             ELSE IF rest = "" THEN Str(displayName(item))
             ELSE Str(displayName(item)) \o "." \o rest
getScopedNameWithinPackage(id) == scopedNameFrom(id, 1)

\* frontMatter.title as the title switch of _writeApiItemPage sets it.
PageTitle(apiItem) ==
    LET item == ItemOf(apiItem)
        scopedName == getScopedNameWithinPackage(apiItem)
    IN  CASE item.kind = "Class" -> scopedName \o " class"
          [] item.kind = "EntryPoint" ->
                Str(getUnscopedName(displayName(ItemOf(ParentId(apiItem)))))
                \o "/" \o Str(displayName(item)) \o " entrypoint"
          [] item.kind = "Enum" -> scopedName \o " enum"
          [] item.kind = "Interface" -> scopedName \o " interface"
          [] item.kind \in {"Constructor", "ConstructSignature"} -> scopedName
          [] item.kind \in {"Method", "MethodSignature"} -> scopedName \o " method"
          [] item.kind = "Function" -> scopedName \o " function"
          [] item.kind = "Model" -> "API Reference"
          [] item.kind = "Namespace" -> scopedName \o " namespace"
          [] item.kind = "Package" ->
                Str(getUnscopedName(displayName(item))) \o " package"
          [] item.kind \in {"Property", "PropertySignature"} -> scopedName \o " property"
          [] item.kind = "TypeAlias" -> scopedName \o " type"
          [] item.kind = "Variable" -> scopedName \o " variable"

\* A link node for every reference token, resolved or not.
ExcerptTokenNode_AlwaysLink(token) ==
    IF token.kind = "Reference"
    THEN LinkNode(token.text, token.ref.id)
    ELSE Node("PlainText", token.text)

\* _appendExcerptTokenWithHyperlinks: a link node for a reference token that
\* resolves to an item of the model, plain text for every other token.
ExcerptTokenNode(token) ==
    IF token.kind = "Reference" /\ token.ref.canonical /\ token.ref.resolved
    THEN LinkNode(token.text, token.ref.id)
    ELSE Node("PlainText", token.text)

\* _appendExcerptWithHyperlinks
ExcerptNodes(tokens) == [i \in 1..Len(tokens) |-> ExcerptTokenNode(tokens[i])]

\* The <<item, url>> pairs of the link nodes among the nodes of an excerpt.
ExcerptLinks(tokens) ==
    {<<tokens[i].ref.id, _getLinkFilenameForApiItem(tokens[i].ref.id)>> :
        i \in {j \in 1..Len(tokens) :
                 /\ tokens[j].kind = "Reference"
                 /\ tokens[j].ref.canonical /\ tokens[j].ref.resolved}}

\* The items that the link nodes among the nodes of an excerpt link to.
ExcerptRefs(tokens) ==
    {tokens[i].ref.id :
        i \in {j \in 1..Len(tokens) :
                 /\ tokens[j].kind = "Reference"
                 /\ tokens[j].ref.canonical /\ tokens[j].ref.resolved}}

\* The tokens whose text no earlier token of the sequence has (the visited
\* set of _writeHeritageTypes).
FirstByText(tokens) ==
    LET keep == {i \in 1..Len(tokens) :
                    \A j \in 1..(i - 1) : tokens[j].text # tokens[i].text}
        RECURSIVE pick(_)
        pick(i) == IF i > Len(tokens) THEN <<>>
                   ELSE IF i \in keep THEN <<tokens[i]>> \o pick(i + 1)
                   ELSE pick(i + 1)
    IN  pick(1)

\* The tokens _writeHeritageTypes renders for an item: the extends clause
\* of a class, the reference tokens of a type alias that resolve.
HeritageTokens(item) ==
    CASE item.kind = "Class" /\ item.hasExtends -> item.tokens
      [] item.kind = "TypeAlias" ->
            FirstByText(SelectSeq(item.tokens,
                            LAMBDA t : /\ t.kind = "Reference"
                                       /\ t.ref.canonical /\ t.ref.resolved))
      [] OTHER -> <<>>

\* The nodes appended to the page before its tables: the release-tag
\* warning, the note of a deprecated item, the summary, the signature, the
\* heritage paragraph and the decorator blocks.  The model and the entry
\* points are no ApiDocumentedItems: they have no comment.
PreludeNodes(apiItem) ==
    LET item == ItemOf(apiItem)
        documented == item.kind \notin {"Model", "EntryPoint"}
    IN  (IF item.releaseTag \in {"Alpha", "Beta"}
         THEN << Node("NoteBox", item.releaseTag) >> ELSE <<>>)
        \o (IF documented /\ item.isDeprecated
            THEN << Node("NoteBox", "Warning: This API is now obsolete. ") >>
            ELSE <<>>)
        \o (IF item.hasSummary THEN << Node("Summary", "") >> ELSE <<>>)
        \o (IF item.kind \in DeclaredKinds
            THEN << Node("Paragraph", "Signature:"), Node("FencedCode", "") >>
            ELSE <<>>)
        \o (IF HeritageTokens(item) # <<>>
            THEN << Node("Paragraph", IF item.kind = "Class" THEN "Extends: "
                                      ELSE "References: ") >>
                 \o ExcerptNodes(HeritageTokens(item))
            ELSE <<>>)
        \o (IF documented /\ item.decorators > 0
            THEN << Node("Paragraph", "Decorators:") >>
                 \o [n \in 1..item.decorators |->
                        Node("Paragraph", "decorator block " \o ToString(n))]
            ELSE <<>>)

PreludeLinks(apiItem) == ExcerptLinks(HeritageTokens(ItemOf(apiItem)))

\* The remarks section with every example heading numbered, a single one too.
RemarksNodes_AlwaysNumbered(apiItem) ==
    LET item == ItemOf(apiItem)
    IN  IF item.kind \in {"Model", "EntryPoint"} THEN <<>>
        ELSE (IF item.hasRemarks
              THEN << Node("Heading", "Remarks"), Node("Section", "remarks") >>
              ELSE <<>>)
             \o [n \in 1..(2 * item.examples) |->
                    LET exampleNumber == (n + 1) \div 2
                    IN  IF n % 2 = 1
                        THEN Node("Heading", "Example " \o ToString(exampleNumber))
                        ELSE Node("Section", "example block " \o ToString(exampleNumber))]

\* _writeRemarksSection: the Remarks heading and block, then one heading
\* and one section per @example block, numbered when there are several.
\* The model and the entry points are no ApiDocumentedItems.
RemarksNodes(apiItem) ==
    LET item == ItemOf(apiItem)
    IN  IF item.kind \in {"Model", "EntryPoint"} THEN <<>>
        ELSE (IF item.hasRemarks
              THEN << Node("Heading", "Remarks"), Node("Section", "remarks") >>
              ELSE <<>>)
             \o [n \in 1..(2 * item.examples) |->
                    LET exampleNumber == (n + 1) \div 2
                    IN  IF n % 2 = 1
                        THEN Node("Heading",
                                  IF item.examples > 1
                                  THEN "Example " \o ToString(exampleNumber)
                                  ELSE "Example")
                        ELSE Node("Section", "example block " \o ToString(exampleNumber))]

\* The kinds whose page has its remarks in front of its tables.
RemarksFirstKinds == {"Class", "Interface", "Namespace", "Package"}

\* _writeThrowsSection
ThrowsNodes(apiItem) ==
    IF ItemOf(apiItem).hasThrows
    THEN << Node("Heading", "Exceptions"), Node("Section", "throws") >>
    ELSE <<>>

\* _writeParameterTables: the Parameters table when the item has
\* parameters (one row in plain text per parameter, held by the item), and
\* the Returns paragraphs of an item with a return type.
ParameterNodes(apiItem) ==
    LET item == ItemOf(apiItem)
    IN  (IF item.parameters > 0
         THEN << Node("Heading", "Parameters"),
                 TableNode("Parameters",
                           [i \in 1..item.parameters |->
                               [apiItem |-> apiItem, url |-> "",
                                typeNodes |-> << Node("PlainText", "(not declared)") >>,
                                inheritedFrom |-> ""]]) >>
         ELSE <<>>)
        \o (IF item.kind \in {"ConstructSignature", "Method", "MethodSignature",
                              "Function"}
            THEN << Node("Paragraph", ""), Node("Paragraph", "Returns:"),
                    Node("Paragraph", "(not declared)") >>
            ELSE <<>>)

-----------------------------------------------------------------------------
(* Members and tables *)

\* Kinds whose items mix in ApiNameMixin.
UnnamedKinds ==
    {"Constructor", "ConstructSignature", "CallSignature", "IndexSignature",
     "Model"}

\* The index paths of the members of the item with index path id, in order.
MemberIds(id) == [i \in 1..Len(ItemOf(id).members) |-> id \o <<i>>]

RECURSIVE Flatten(_)
\* The concatenation of a sequence of sequences.
Flatten(ss) == IF ss = <<>> THEN <<>> ELSE Head(ss) \o Flatten(Tail(ss))

RECURSIVE collectMembers(_, _, _)
\* ApiItemContainerMixin.findMembersWithInheritance, the items: the members
\* of `next` that no class visited before declares (by name, or by kind for
\* the unnamed kinds), followed by those of its base class when the extends
\* clause resolves to a class of the model.
collectMembers(next, seenNames, seenKinds) ==
    LET own == SelectSeq(MemberIds(next),
                   LAMBDA m : IF ItemOf(m).kind \in UnnamedKinds
                              THEN ItemOf(m).kind \notin seenKinds
                              ELSE ItemOf(m).name \notin seenNames)
        names == {ItemOf(own[i]).name :
                    i \in {j \in 1..Len(own) : ItemOf(own[j]).kind \notin UnnamedKinds}}
        kinds == {ItemOf(own[i]).kind :
                    i \in {j \in 1..Len(own) : ItemOf(own[j]).kind \in UnnamedKinds}}
        item == ItemOf(next)
    IN  IF item.kind = "Class" /\ item.hasExtends /\ item.extendsRef.resolved
        THEN own \o collectMembers(item.extendsRef.id, seenNames \cup names,
                                   seenKinds \cup kinds)
        ELSE own

RECURSIVE maybeIncompleteResult(_)
\* findMembersWithInheritance reports a possibly incomplete result when an
\* extends clause of the class or of one of its bases does not resolve.
maybeIncompleteResult(next) ==
    LET item == ItemOf(next)
    IN  item.kind = "Class" /\ item.hasExtends
        /\ (~item.extendsRef.resolved \/ maybeIncompleteResult(item.extendsRef.id))

RECURSIVE inheritanceMessages(_)
\* The messages of findMembersWithInheritance: one for the extends clause
\* at which the walk up the base classes stops without a declaration.
inheritanceMessages(next) ==
    LET item == ItemOf(next)
    IN  IF item.kind = "Class" /\ item.hasExtends
        THEN IF item.extendsRef.resolved
             THEN inheritanceMessages(item.extendsRef.id)
             ELSE << "Unable to resolve the extends clause of "
                     \o Str(displayName(item)) >>
        ELSE <<>>

findMembersWithInheritance(id) ==
    [items |-> collectMembers(id, {}, {}),
     messages |-> inheritanceMessages(id),
     maybeIncompleteResult |-> maybeIncompleteResult(id)]

\* showInheritedMembers as _getMembersAndWriteIncompleteWarning reads it
showInheritedMembers ==
    documenterConfig.present /\ documenterConfig.showInheritedMembers

\* _getMembersAndWriteIncompleteWarning, the members it returns
getMembers(id) ==
    IF ~showInheritedMembers THEN MemberIds(id)
    ELSE findMembersWithInheritance(id).items

\* _getMembersAndWriteIncompleteWarning, the nodes it appends to the page
IncompleteWarning(id) ==
    IF showInheritedMembers /\ findMembersWithInheritance(id).maybeIncompleteResult
    THEN << Node("Paragraph",
                 "(Some inherited members may not be shown because they are not represented in the documentation.)") >>
    ELSE <<>>

\* _getMembersAndWriteIncompleteWarning, the lines it logs
DiagnosticLines(id) ==
    IF showInheritedMembers
    THEN LET messages == findMembersWithInheritance(id).messages
         IN  [i \in 1..Len(messages) |->
                 "Diagnostic message for findMembersWithInheritance: " \o messages[i]]
    ELSE <<>>

\* The members a page's table-building loop iterates over.
ApiMembersOf(id) ==
    LET item == ItemOf(id)
    IN  CASE item.kind \in {"Model", "Namespace"} -> MemberIds(id)
          [] item.kind = "Package" ->
                Flatten([i \in 1..Len(item.members) |-> MemberIds(id \o <<i>>)])
          [] item.kind \in {"Class", "Interface"} -> getMembers(id)
          [] OTHER -> <<>>

\* The tables of a page, in the order in which the page appends them.
TableTitles(kind) ==
    CASE kind = "Model" -> <<"Packages">>
      [] kind \in {"Package", "Namespace"} ->
            <<"Classes", "Abstract Classes", "Enumerations", "Functions",
              "Interfaces", "Namespaces", "Variables", "Type Aliases">>
      [] kind = "Class" -> <<"Events", "Constructors", "Properties", "Methods">>
      [] kind = "Interface" -> <<"Events", "Properties", "Methods">>
      [] kind = "Enum" -> <<"Enumeration Members">>
      [] OTHER -> <<>>

\* Variant: the switch does not tell abstract classes from the others.
TableOf_AbstractAmongClasses(kind, member) ==
    CASE kind = "Model" -> IF member.kind = "Package" THEN "Packages" ELSE ""
      [] kind \in {"Package", "Namespace"} ->
            CASE member.kind = "Class" -> "Classes"
              [] member.kind = "Enum" -> "Enumerations"
              [] member.kind = "Interface" -> "Interfaces"
              [] member.kind = "Namespace" -> "Namespaces"
              [] member.kind = "Function" -> "Functions"
              [] member.kind = "TypeAlias" -> "Type Aliases"
              [] member.kind = "Variable" -> "Variables"
              [] OTHER -> ""
      [] kind = "Class" ->
            CASE member.kind = "Constructor" -> "Constructors"
              [] member.kind = "Method" -> "Methods"
              [] member.kind = "Property" ->
                    IF member.isEvent THEN "Events" ELSE "Properties"
              [] OTHER -> ""
      [] kind = "Interface" ->
            CASE member.kind \in {"ConstructSignature", "MethodSignature"} -> "Methods"
              [] member.kind = "PropertySignature" ->
                    IF member.isEvent THEN "Events" ELSE "Properties"
              [] OTHER -> ""
      [] OTHER -> ""

\* The table that the member switch of a container of kind `kind` adds the
\* row of `member` to, "" when the switch has no case for the member's kind.
TableOf(kind, member) ==
    CASE kind = "Model" -> IF member.kind = "Package" THEN "Packages" ELSE ""
      [] kind \in {"Package", "Namespace"} ->
            CASE member.kind = "Class" ->
                    IF member.isAbstract THEN "Abstract Classes" ELSE "Classes"
              [] member.kind = "Enum" -> "Enumerations"
              [] member.kind = "Interface" -> "Interfaces"
              [] member.kind = "Namespace" -> "Namespaces"
              [] member.kind = "Function" -> "Functions"
              [] member.kind = "TypeAlias" -> "Type Aliases"
              [] member.kind = "Variable" -> "Variables"
              [] OTHER -> ""
      [] kind = "Class" ->
            CASE member.kind = "Constructor" -> "Constructors"
              [] member.kind = "Method" -> "Methods"
              [] member.kind = "Property" ->
                    IF member.isEvent THEN "Events" ELSE "Properties"
              [] OTHER -> ""
      [] kind = "Interface" ->
            CASE member.kind \in {"ConstructSignature", "MethodSignature"} -> "Methods"
              [] member.kind = "PropertySignature" ->
                    IF member.isEvent THEN "Events" ELSE "Properties"
              [] OTHER -> ""
      [] OTHER -> ""

\* A table row: the member, the destination of its title cell ("" when the
\* cell holds plain text), the nodes of its type cell and the destination
\* of its "(Inherited from X)" link ("" when the member is not inherited).
Row(apiItem, url, typeNodes, inheritedFrom) ==
    [apiItem |-> apiItem, url |-> url, typeNodes |-> typeNodes,
     inheritedFrom |-> inheritedFrom]

\* The row a container's loop builds for one member.
MemberRowOf(container, apiMember) ==
    LET kind == ItemOf(container).kind
        member == ItemOf(apiMember)
        isInherited == kind \in {"Class", "Interface"} /\ ParentId(apiMember) # container
    IN  Row(apiMember,
            _getLinkFilenameForApiItem(apiMember),
            IF member.kind \in {"Property", "PropertySignature"}
            THEN ExcerptNodes(member.tokens) ELSE <<>>,
            IF isInherited THEN _getLinkFilenameForApiItem(ParentId(apiMember))
            ELSE "")

\* The <<item, url>> pairs of the links in the row built for one member.
MemberRowLinks(container, apiMember) ==
    LET kind == ItemOf(container).kind
        member == ItemOf(apiMember)
    IN  {<<apiMember, _getLinkFilenameForApiItem(apiMember)>>}
        \cup (IF member.kind \in {"Property", "PropertySignature"}
              THEN ExcerptLinks(member.tokens) ELSE {})
        \cup (IF kind \in {"Class", "Interface"} /\ ParentId(apiMember) # container
              THEN {<<ParentId(apiMember),
                      _getLinkFilenameForApiItem(ParentId(apiMember))>>}
              ELSE {})

\* DocTable.addRow on the table titled `title` of a page's tables.
AddRow(tables, title, row) ==
    [i \in 1..Len(tables) |->
        IF tables[i].title = title
        THEN [tables[i] EXCEPT !.rows = Append(@, row)]
        ELSE tables[i]]

\* The tables of a page when its member loop starts: all empty, except that
\* of an enum, whose members are rows in plain text and get no page.
InitialTables(apiItem) ==
    LET kind == ItemOf(apiItem).kind
        titles == TableTitles(kind)
    IN  [i \in 1..Len(titles) |->
            [title |-> titles[i],
             rows  |-> IF kind = "Enum"
                       THEN [j \in 1..Len(MemberIds(apiItem)) |->
                                Row(MemberIds(apiItem)[j], "", <<>>, "")]
                       ELSE <<>>]]

\* A heading and a table appended for every table, with rows or without.
TableNodes_AlsoEmpty(tables) ==
    Flatten([i \in 1..Len(tables) |->
                << Node("Heading", tables[i].title),
                   TableNode(tables[i].title, tables[i].rows) >>])

\* The heading and the table appended for every table that has a row.
TableNodes(tables) ==
    Flatten([i \in 1..Len(tables) |->
                IF Len(tables[i].rows) > 0
                THEN << Node("Heading", tables[i].title),
                        TableNode(tables[i].title, tables[i].rows) >>
                ELSE <<>>])

\* The nodes before the loops with the advisory in front of all the others.
BodyBeforeLoops_WarningFirst(apiItem) ==
    LET kind == ItemOf(apiItem).kind
    IN  (IF kind \in {"Class", "Interface"} THEN IncompleteWarning(apiItem) ELSE <<>>)
        \o PreludeNodes(apiItem)
        \o (IF kind \in RemarksFirstKinds THEN RemarksNodes(apiItem) ELSE <<>>)

\* The nodes of a page that _writeApiItemPage appends before the loops of
\* its table writer: the prelude, the remarks of the kinds that have them in
\* front, the advisory of _getMembersAndWriteIncompleteWarning.
BodyBeforeLoops(apiItem) ==
    LET kind == ItemOf(apiItem).kind
    IN  PreludeNodes(apiItem)
        \o (IF kind \in RemarksFirstKinds THEN RemarksNodes(apiItem) ELSE <<>>)
        \o (IF kind \in {"Class", "Interface"} THEN IncompleteWarning(apiItem) ELSE <<>>)

\* Variant: the remarks are appended after the tables for every kind.
BodyAfterLoops_RemarksAlways(apiItem, tables) ==
    LET kind == ItemOf(apiItem).kind
    IN  TableNodes(tables)
        \o (IF kind = "EntryPoint"
            THEN << Node("Paragraph",
                         "TODO: Please reference the root entrypoint which contains links to elements from all entrypoints") >>
            ELSE <<>>)
        \o (IF kind \in {"Constructor", "ConstructSignature", "Method",
                         "MethodSignature", "Function"}
            THEN ParameterNodes(apiItem) \o ThrowsNodes(apiItem) ELSE <<>>)
        \o RemarksNodes(apiItem)

\* The nodes appended after the loops: the tables that have rows, the
\* placeholder of an entry point, the parameter tables and the exceptions
\* of a function-like item, the remarks of the other kinds.
BodyAfterLoops(apiItem, tables) ==
    LET kind == ItemOf(apiItem).kind
    IN  TableNodes(tables)
        \o (IF kind = "EntryPoint"
            THEN << Node("Paragraph",
                         "TODO: Please reference the root entrypoint which contains links to elements from all entrypoints") >>
            ELSE <<>>)
        \o (IF kind \in {"Constructor", "ConstructSignature", "Method",
                         "MethodSignature", "Function"}
            THEN ParameterNodes(apiItem) \o ThrowsNodes(apiItem) ELSE <<>>)
        \o (IF kind \in RemarksFirstKinds THEN <<>> ELSE RemarksNodes(apiItem))

-----------------------------------------------------------------------------
(* Activation records, events and pages *)

NoContent == [frontMatter |-> [title |-> "", menu |-> FALSE], body |-> <<>>,
              pluginNote |-> ""]

\* The activation record of a call _writeApiItemPage(apiItem).
Frame(apiItem) ==
    [apiItem     |-> apiItem,
     pc          |-> "enter",      \* enter, entrypoints, members, hook, write
     title       |-> "",           \* frontMatter.title
     output      |-> <<>>,         \* the nodes of the page's DocSection
     entryIndex  |-> 1,            \* position of the entry-point loop
     entryRows   |-> <<>>,         \* rows of the Entrypoints table
     apiMembers  |-> <<>>,         \* the members the member loop iterates over
     memberIndex |-> 1,            \* position of the member loop
     tables      |-> <<>>,         \* the tables of the page
     listed      |-> <<>>,         \* the members whose rows were added to a table
     filename    |-> "",           \* the local `filename`
     pageContent |-> NoContent,    \* the local `pageContent`
     eventFilename |-> ""]         \* eventArgs.outputFilename after the hook

Top == stack[Len(stack)]
SetTop(frame) == [stack EXCEPT ![Len(stack)] = frame]
Pop == SubSeq(stack, 1, Len(stack) - 1)

\* An observable event of a run.
Event(type, apiItem, filename, content) ==
    [type |-> type, apiItem |-> apiItem, filename |-> filename,
     content |-> content, newline |-> "", listed |-> <<>>, text |-> ""]

\* The console.log lines of the first part of _writeApiItemPage, as events.
LogEvents(apiItem) ==
    LET item == ItemOf(apiItem)
        lines == CASE item.kind = "Package" ->
                        << "Writing " \o Str(displayName(item)) \o " package" >>
                   [] item.kind \in {"Class", "Interface"} -> DiagnosticLines(apiItem)
                   [] OTHER -> <<>>
    IN  [i \in 1..Len(lines) |->
            [Event("log", apiItem, "", NoContent) EXCEPT !.text = lines[i]]]

\* HugoMarkdownEmitter.emitWithFrontMatter: the page text, as the front
\* matter followed by the rendered body.
emitWithFrontMatter(output, title, kind) ==
    [frontMatter |-> [title |-> title, menu |-> kind = "Model"],
     body |-> output, pluginNote |-> ""]

\* path.join(this._outputFolder, relative)
pathJoin(folder, relative) == folder \o "/" \o relative

\* Variant: the option is read from the configuration without the test.
convertLineEndings_FromConfig == documenterConfig.newlineKind

\* The convertLineEndings option of the FileSystem.writeFile call.
convertLineEndings ==
    IF documenterConfig.present THEN documenterConfig.newlineKind ELSE "CrLf"

\* The page text and the filename argument as the plugin's pre-write hook
\* leaves them in eventArgs.
HookedContent(content) ==
    IF documenterConfig.plugin = "rewrite"
    THEN [content EXCEPT !.pluginNote = "rewritten by the plugin"]
    ELSE content
HookedFilename(filename) ==
    IF documenterConfig.plugin = "rewrite" THEN "elsewhere.md" ELSE filename

\* The positions of the events of one type in the trace of the current run.
EventsOf(type) == {i \in 1..Len(trace) : trace[i].type = type}

\* The write events of a trace, as <<filename, content, newline>>.
WritesOf(events) ==
    LET w == SelectSeq(events, LAMBDA e : e.type = "write")
    IN  [i \in 1..Len(w) |-> <<w[i].filename, w[i].content, w[i].newline>>]

-----------------------------------------------------------------------------
(* generateFiles *)

Running == pc \in {"generate", "page"}

\* The items whose path the next step of the innermost call resolves.
ResolvedByStep ==
    LET apiItem == Top.apiItem
        item == ItemOf(apiItem)
    IN  CASE Top.pc = "enter" -> ExcerptRefs(HeritageTokens(item))
          [] Top.pc = "entrypoints" ->
                IF Top.entryIndex <= Len(item.members)
                THEN {apiItem \o <<Top.entryIndex>>} ELSE {}
          [] Top.pc = "members" ->
                IF Top.memberIndex > Len(Top.apiMembers) THEN {apiItem}
                ELSE LET apiMember == Top.apiMembers[Top.memberIndex]
                         member == ItemOf(apiMember)
                     IN  IF item.kind \in {"Class", "Interface"}
                         THEN IF TableOf(item.kind, member) = "" THEN {}
                              ELSE {apiMember}
                                   \cup (IF member.kind \in {"Property", "PropertySignature"}
                                         THEN ExcerptRefs(member.tokens) ELSE {})
                                   \cup (IF ParentId(apiMember) # apiItem
                                         THEN {ParentId(apiMember)} ELSE {})
                         ELSE {apiMember}
          [] OTHER -> {}

\* The error that PackageName.getUnscopedName throws in the next step of the
\* innermost call, in the title switch or in the resolver; "" when none.
StepError ==
    LET apiItem == Top.apiItem
        item == ItemOf(apiItem)
        titleError ==
            IF Top.pc # "enter" THEN ""
            ELSE CASE item.kind = "Package" -> packageNameError(displayName(item))
                   [] item.kind = "EntryPoint" /\ item.name # <<>> ->
                         packageNameError(displayName(ItemOf(ParentId(apiItem))))
                   [] OTHER -> ""
        pathErrors == {_getFilenameError(id) : id \in ResolvedByStep} \ {""}
    IN  IF titleError # "" THEN titleError
        ELSE IF pathErrors = {} THEN ""
        ELSE CHOOSE e \in pathErrors : TRUE

\* PluginLoader.load: the feature of the plugin the configuration names.
LoadPlugins ==
    /\ pc = "load"
    /\ feature' = (documenterConfig.present /\ documenterConfig.plugin # "none")
    /\ pc' = "delete"
    /\ UNCHANGED nodeVars
    /\ UNCHANGED <<apiModel, documenterConfig, stack, files, trace, links, error,
                   runNo, prevWrites>>

\* PluginLoader.load throws: the plugin cannot be loaded.
LoadPluginsFails ==
    /\ pc = "load"
    /\ documenterConfig.present /\ documenterConfig.plugin # "none"
    /\ error' = "Failed to load plugin"
    /\ trace' = Append(trace, Event("error", <<>>, "", NoContent))
    /\ pc' = "failed"
    /\ UNCHANGED nodeVars
    /\ UNCHANGED <<apiModel, documenterConfig, feature, stack, files, links,
                   runNo, prevWrites>>

\* _deleteOldOutputFiles, then the call _writeApiItemPage(this._apiModel)
DeleteOldOutputFiles ==
    /\ pc = "delete"
    /\ files' = {}
    /\ trace' = Append(trace, Event("clear", <<>>, outputFolder, NoContent))
    /\ stack' = << Frame(<<>>) >>
    /\ pc' = "generate"
    /\ UNCHANGED nodeVars
    /\ UNCHANGED <<apiModel, documenterConfig, feature, links, error, runNo,
                   prevWrites>>

\* SkipPage returning for every entry point, not only the one with the
\* empty import path.
SkipPage_EveryEntryPoint ==
    /\ Running /\ stack # <<>> /\ Top.pc = "enter"
    /\ ItemOf(Top.apiItem).kind = "EntryPoint"
    /\ stack' = Pop
    /\ UNCHANGED nodeVars
    /\ UNCHANGED <<apiModel, documenterConfig, feature, pc, files, trace, links,
                   error, runNo, prevWrites>>

\* The title switch without the early return for the entry point with the
\* empty import path: its page is built like that of any other entry point.
SkipPage_NoEarlyReturn ==
    /\ Running /\ stack # <<>> /\ Top.pc = "enter"
    /\ ItemOf(Top.apiItem).kind = "EntryPoint"
    /\ ItemOf(Top.apiItem).name = <<>>
    /\ stack' = SetTop([Top EXCEPT
           !.title = PageTitle(Top.apiItem),
           !.output = BodyBeforeLoops(Top.apiItem),
           !.pc = "members"])
    /\ UNCHANGED nodeVars
    /\ UNCHANGED <<apiModel, documenterConfig, feature, pc, files, trace, links,
                   error, runNo, prevWrites>>

\* _writeApiItemPage, the title switch: the entry point with the empty
\* import path returns at once.
SkipPage ==
    /\ Running /\ stack # <<>> /\ Top.pc = "enter"
    /\ ItemOf(Top.apiItem).kind = "EntryPoint"
    /\ ItemOf(Top.apiItem).name = <<>>
    /\ stack' = Pop
    /\ UNCHANGED nodeVars
    /\ UNCHANGED <<apiModel, documenterConfig, feature, pc, files, trace, links,
                   error, runNo, prevWrites>>

\* _writeApiItemPage, the default case of the title switch.
UnsupportedKind ==
    /\ Running /\ stack # <<>> /\ Top.pc = "enter"
    /\ ItemOf(Top.apiItem).kind \notin PageKinds
    /\ error' = "Unsupported API item kind: " \o ItemOf(Top.apiItem).kind
    /\ trace' = Append(trace, Event("error", Top.apiItem, "", NoContent))
    /\ pc' = "failed"
    /\ UNCHANGED nodeVars
    /\ UNCHANGED <<apiModel, documenterConfig, feature, stack, files, links,
                   runNo, prevWrites>>

\* EnterPage with the default case of the title switch missing: an item of
\* any kind gets its nodes.
EnterPage_NoDefaultCase ==
    /\ Running /\ stack # <<>> /\ Top.pc = "enter"
    /\ StepError = ""
    /\ LET apiItem == Top.apiItem
           item == ItemOf(apiItem)
       IN  /\ ~(item.kind = "EntryPoint" /\ item.name = <<>>)
           /\ stack' = SetTop([Top EXCEPT
                  !.title = IF item.kind \in PageKinds THEN PageTitle(apiItem) ELSE "",
                  !.output = BodyBeforeLoops(apiItem),
                  !.apiMembers = ApiMembersOf(apiItem),
                  !.tables = InitialTables(apiItem),
                  !.pc = IF item.kind = "Package" THEN "entrypoints" ELSE "members"])
           /\ links' = links \cup PreludeLinks(apiItem)
           /\ trace' = trace \o LogEvents(apiItem)
    /\ UNCHANGED nodeVars
    /\ UNCHANGED <<apiModel, documenterConfig, feature, pc, files, error,
                   runNo, prevWrites>>

\* PackageName.getUnscopedName throws in the title switch or in
\* _getFilenameForApiItem: the exception leaves _writeApiItemPage.
GetFilenameFails ==
    /\ Running /\ stack # <<>>
    /\ ItemOf(Top.apiItem).kind \in PageKinds
    /\ ~(ItemOf(Top.apiItem).kind = "EntryPoint" /\ ItemOf(Top.apiItem).name = <<>>)
    /\ StepError # ""
    /\ error' = StepError
    /\ trace' = Append(trace, Event("error", Top.apiItem, "", NoContent))
    /\ pc' = "failed"
    /\ UNCHANGED nodeVars
    /\ UNCHANGED <<apiModel, documenterConfig, feature, stack, files, links,
                   runNo, prevWrites>>

\* _writeApiItemPage up to the first recursive call: the title, the nodes
\* in front of the tables, the members to iterate over.
EnterPage ==
    /\ Running /\ stack # <<>> /\ Top.pc = "enter"
    /\ StepError = ""
    /\ LET apiItem == Top.apiItem
           item == ItemOf(apiItem)
       IN  /\ item.kind \in PageKinds
           /\ ~(item.kind = "EntryPoint" /\ item.name = <<>>)
           /\ stack' = SetTop([Top EXCEPT
                  !.title = PageTitle(apiItem),
                  !.output = BodyBeforeLoops(apiItem),
                  !.apiMembers = ApiMembersOf(apiItem),
                  !.tables = InitialTables(apiItem),
                  !.pc = IF item.kind = "Package" THEN "entrypoints" ELSE "members"])
           /\ links' = links \cup PreludeLinks(apiItem)
           /\ trace' = trace \o LogEvents(apiItem)
    /\ UNCHANGED nodeVars
    /\ UNCHANGED <<apiModel, documenterConfig, feature, pc, files, error,
                   runNo, prevWrites>>

\* _writePackageOrNamespaceTables, one turn of the loop over the entry
\* points of a package: the row, then the entry point's page.
EntryPointRow ==
    /\ Running /\ stack # <<>> /\ Top.pc = "entrypoints"
    /\ StepError = ""
    /\ Top.entryIndex <= Len(ItemOf(Top.apiItem).members)
    /\ LET entrypoint == Top.apiItem \o <<Top.entryIndex>>
           url == _getLinkFilenameForApiItem(entrypoint)
       IN  /\ stack' = Append(
                  SetTop([Top EXCEPT
                      !.entryRows = Append(@, Row(entrypoint, url, <<>>, "")),
                      !.entryIndex = @ + 1]),
                  Frame(entrypoint))
           /\ links' = links \cup {<<entrypoint, url>>}
    /\ UNCHANGED nodeVars
    /\ UNCHANGED <<apiModel, documenterConfig, feature, pc, files, trace, error,
                   runNo, prevWrites>>

\* _writePackageOrNamespaceTables, after the loop over the entry points:
\* the Entrypoints table when it has more than one row.
EntryPointsDone ==
    /\ Running /\ stack # <<>> /\ Top.pc = "entrypoints"
    /\ Top.entryIndex > Len(ItemOf(Top.apiItem).members)
    /\ stack' = SetTop([Top EXCEPT
           !.output = IF Len(Top.entryRows) > 1
                      THEN @ \o << Node("Heading", "Entrypoints"),
                                   TableNode("Entrypoints", Top.entryRows) >>
                      ELSE @,
           !.pc = "members"])
    /\ UNCHANGED nodeVars
    /\ UNCHANGED <<apiModel, documenterConfig, feature, pc, files, trace, links,
                   error, runNo, prevWrites>>

\* MemberRow without the call that writes the member's page.
MemberRow_NoPage ==
    /\ Running /\ stack # <<>> /\ Top.pc = "members"
    /\ StepError = ""
    /\ Top.memberIndex <= Len(Top.apiMembers)
    /\ LET apiMember == Top.apiMembers[Top.memberIndex]
           table == TableOf(ItemOf(Top.apiItem).kind, ItemOf(apiMember))
       IN  /\ table # ""
           /\ stack' = SetTop([Top EXCEPT
                  !.tables = AddRow(@, table, MemberRowOf(Top.apiItem, apiMember)),
                  !.listed = Append(@, apiMember),
                  !.memberIndex = @ + 1])
           /\ links' = links \cup MemberRowLinks(Top.apiItem, apiMember)
    /\ UNCHANGED nodeVars
    /\ UNCHANGED <<apiModel, documenterConfig, feature, pc, files, trace, error,
                   runNo, prevWrites>>

\* One turn of a member loop whose switch has a case for the member: the
\* row is added to its table and the member's page is written.
MemberRow ==
    /\ Running /\ stack # <<>> /\ Top.pc = "members"
    /\ StepError = ""
    /\ Top.memberIndex <= Len(Top.apiMembers)
    /\ LET apiMember == Top.apiMembers[Top.memberIndex]
           table == TableOf(ItemOf(Top.apiItem).kind, ItemOf(apiMember))
       IN  /\ table # ""
           /\ stack' = Append(
                  SetTop([Top EXCEPT
                      !.tables = AddRow(@, table, MemberRowOf(Top.apiItem, apiMember)),
                      !.listed = Append(@, apiMember),
                      !.memberIndex = @ + 1]),
                  Frame(apiMember))
           /\ links' = links \cup MemberRowLinks(Top.apiItem, apiMember)
    /\ UNCHANGED nodeVars
    /\ UNCHANGED <<apiModel, documenterConfig, feature, pc, files, trace, error,
                   runNo, prevWrites>>

\* MemberSkipped with a default case that adds the member's row to the
\* first table of the page.
MemberSkipped_AddsRow ==
    /\ Running /\ stack # <<>> /\ Top.pc = "members"
    /\ StepError = ""
    /\ Top.memberIndex <= Len(Top.apiMembers)
    /\ LET apiMember == Top.apiMembers[Top.memberIndex]
           kind == ItemOf(Top.apiItem).kind
       IN  /\ TableOf(kind, ItemOf(apiMember)) = ""
           /\ links' = links \cup MemberRowLinks(Top.apiItem, apiMember)
           /\ stack' = SetTop([Top EXCEPT
                  !.tables = AddRow(@, TableTitles(kind)[1],
                                    MemberRowOf(Top.apiItem, apiMember)),
                  !.memberIndex = @ + 1])
    /\ UNCHANGED nodeVars
    /\ UNCHANGED <<apiModel, documenterConfig, feature, pc, files, trace, error,
                   runNo, prevWrites>>

\* One turn of a member loop whose switch has no case for the member.  The
\* loops of the model, package and namespace tables have built the row (and
\* its title link) before the switch; those of class and interface have not.
MemberSkipped ==
    /\ Running /\ stack # <<>> /\ Top.pc = "members"
    /\ StepError = ""
    /\ Top.memberIndex <= Len(Top.apiMembers)
    /\ LET apiMember == Top.apiMembers[Top.memberIndex]
           kind == ItemOf(Top.apiItem).kind
       IN  /\ TableOf(kind, ItemOf(apiMember)) = ""
           /\ links' = IF kind \in {"Model", "Package", "Namespace"}
                       THEN links \cup MemberRowLinks(Top.apiItem, apiMember)
                       ELSE links
    /\ stack' = SetTop([Top EXCEPT !.memberIndex = @ + 1])
    /\ UNCHANGED nodeVars
    /\ UNCHANGED <<apiModel, documenterConfig, feature, pc, files, trace, error,
                   runNo, prevWrites>>

\* FinishPage with a filename that depends on the files written before: a
\* name already taken gets a suffix.
FinishPage_Uniquify ==
    /\ Running /\ stack # <<>> /\ Top.pc = "members"
    /\ StepError = ""
    /\ Top.memberIndex > Len(Top.apiMembers)
    /\ LET kind == ItemOf(Top.apiItem).kind
           output == Top.output \o BodyAfterLoops(Top.apiItem, Top.tables)
           filename == pathJoin(outputFolder, _getFilenameForApiItem(Top.apiItem))
       IN  stack' = SetTop([Top EXCEPT
               !.output = output,
               !.filename = IF \E f \in files : f.filename = filename
                            THEN filename \o ".2" ELSE filename,
               !.pageContent = emitWithFrontMatter(output, Top.title, kind),
               !.pc = IF feature THEN "hook" ELSE "write"])
    /\ UNCHANGED nodeVars
    /\ UNCHANGED <<apiModel, documenterConfig, feature, pc, files, trace, links,
                   error, runNo, prevWrites>>

\* _writeApiItemPage after the member loop: the non-empty tables, the
\* filename, the emitted page text.
FinishPage ==
    /\ Running /\ stack # <<>> /\ Top.pc = "members"
    /\ StepError = ""
    /\ Top.memberIndex > Len(Top.apiMembers)
    /\ LET kind == ItemOf(Top.apiItem).kind
           output == Top.output \o BodyAfterLoops(Top.apiItem, Top.tables)
       IN  stack' = SetTop([Top EXCEPT
               !.output = output,
               !.filename = pathJoin(outputFolder, _getFilenameForApiItem(Top.apiItem)),
               !.pageContent = emitWithFrontMatter(output, Top.title, kind),
               !.pc = IF feature THEN "hook" ELSE "write"])
    /\ UNCHANGED nodeVars
    /\ UNCHANGED <<apiModel, documenterConfig, feature, pc, files, trace, links,
                   error, runNo, prevWrites>>

\* emitWithFrontMatter throws: the page holds a node the emitter has no case
\* for.
EmitWithFrontMatterFails ==
    /\ Running /\ stack # <<>> /\ Top.pc = "members"
    /\ StepError = ""
    /\ Top.memberIndex > Len(Top.apiMembers)
    /\ trace' = Append(trace, Event("error", Top.apiItem, "", NoContent))
    /\ error' = "emitWithFrontMatter failed"
    /\ pc' = "failed"
    /\ UNCHANGED nodeVars
    /\ UNCHANGED <<apiModel, documenterConfig, feature, stack, files, links,
                   runNo, prevWrites>>

\* markdownDocumenterFeature.onBeforeWritePage(eventArgs), then
\* pageContent = eventArgs.pageContent
BeforeWritePage ==
    /\ Running /\ stack # <<>> /\ Top.pc = "hook"
    /\ trace' = Append(trace, Event("before", Top.apiItem, Top.filename, Top.pageContent))
    /\ stack' = SetTop([Top EXCEPT
           !.pageContent = HookedContent(@),
           !.eventFilename = HookedFilename(Top.filename),
           !.pc = "write"])
    /\ UNCHANGED nodeVars
    /\ UNCHANGED <<apiModel, documenterConfig, feature, pc, files, links, error,
                   runNo, prevWrites>>

\* onBeforeWritePage throws.
BeforeWritePageFails ==
    /\ Running /\ stack # <<>> /\ Top.pc = "hook"
    /\ trace' = trace \o << Event("before", Top.apiItem, Top.filename, Top.pageContent),
                            Event("error", Top.apiItem, "", NoContent) >>
    /\ error' = "onBeforeWritePage failed"
    /\ pc' = "failed"
    /\ UNCHANGED nodeVars
    /\ UNCHANGED <<apiModel, documenterConfig, feature, stack, files, links,
                   runNo, prevWrites>>

\* WriteFile writing to the filename the hook left in its arguments.
WriteFile_HookFilename ==
    /\ Running /\ stack # <<>> /\ Top.pc = "write"
    /\ LET filename == IF feature THEN Top.eventFilename ELSE Top.filename
       IN  /\ files' = {f \in files : f.filename # filename}
                       \cup {[filename |-> filename, content |-> Top.pageContent,
                              newline |-> convertLineEndings]}
           /\ trace' = Append(trace,
                  [Event("write", Top.apiItem, filename, Top.pageContent)
                   EXCEPT !.newline = convertLineEndings, !.listed = Top.listed])
    /\ stack' = Pop
    /\ UNCHANGED nodeVars
    /\ UNCHANGED <<apiModel, documenterConfig, feature, pc, links, error, runNo,
                   prevWrites>>

\* FileSystem.ensureFolder and FileSystem.writeFile, then the return to the
\* caller.
WriteFile ==
    /\ Running /\ stack # <<>> /\ Top.pc = "write"
    /\ files' = {f \in files : f.filename # Top.filename}
                \cup {[filename |-> Top.filename, content |-> Top.pageContent,
                       newline |-> convertLineEndings]}
    /\ trace' = Append(trace,
           [Event("write", Top.apiItem, Top.filename, Top.pageContent)
            EXCEPT !.newline = convertLineEndings, !.listed = Top.listed])
    /\ stack' = Pop
    /\ UNCHANGED nodeVars
    /\ UNCHANGED <<apiModel, documenterConfig, feature, pc, links, error, runNo,
                   prevWrites>>

\* WriteFileFails caught by the caller's loop: the page is skipped and the
\* run goes on.
WriteFileFails_SkipsPage ==
    /\ Running /\ stack # <<>> /\ Top.pc = "write"
    /\ trace' = Append(trace, Event("error", Top.apiItem, "", NoContent))
    /\ stack' = Pop
    /\ UNCHANGED nodeVars
    /\ UNCHANGED <<apiModel, documenterConfig, feature, pc, files, links, error,
                   runNo, prevWrites>>

\* FileSystem.writeFile throws.
WriteFileFails ==
    /\ Running /\ stack # <<>> /\ Top.pc = "write"
    /\ trace' = Append(trace, Event("error", Top.apiItem, "", NoContent))
    /\ error' = "writeFile failed"
    /\ pc' = "failed"
    /\ UNCHANGED nodeVars
    /\ UNCHANGED <<apiModel, documenterConfig, feature, stack, files, links,
                   runNo, prevWrites>>

\* OnFinished invoked while the model's page is still to be written.
OnFinished_BeforeModelPage ==
    /\ pc = "generate" /\ Len(stack) = 1 /\ Top.pc = "write"
    /\ feature /\ EventsOf("finished") = {}
    /\ trace' = Append(trace, Event("finished", <<>>, "", NoContent))
    /\ UNCHANGED nodeVars
    /\ UNCHANGED <<apiModel, documenterConfig, feature, pc, stack, files, links,
                   error, runNo, prevWrites>>

\* generateFiles after the model's page: the finished hook of the plugin.
OnFinished ==
    /\ pc = "generate" /\ stack = <<>>
    /\ trace' = IF feature
                THEN Append(trace, Event("finished", <<>>, "", NoContent))
                ELSE trace
    /\ pc' = "done"
    /\ UNCHANGED nodeVars
    /\ UNCHANGED <<apiModel, documenterConfig, feature, stack, files, links,
                   error, runNo, prevWrites>>

\* The tool is started again on the same tree with the same configuration:
\* a new documenter, the output folder as the last run left it.
Rerun ==
    /\ pc = "done" /\ runNo < MaxRuns
    /\ prevWrites' = WritesOf(trace)
    /\ trace' = <<>>
    /\ links' = {}
    /\ feature' = FALSE
    /\ runNo' = runNo + 1
    /\ pc' = "load"
    /\ UNCHANGED nodeVars
    /\ UNCHANGED <<apiModel, documenterConfig, stack, files, error>>

\* A direct call of _writeApiItemPage has returned.
PageReturned ==
    /\ pc = "page" /\ stack = <<>>
    /\ pc' = "done"
    /\ UNCHANGED nodeVars
    /\ UNCHANGED <<apiModel, documenterConfig, feature, stack, files, trace,
                   links, error, runNo, prevWrites>>

\* The steps of _writeApiItemPage that a run started at the model takes.
PageStep ==
    \/ SkipPage
    \/ EnterPage
    \/ GetFilenameFails
    \/ EntryPointRow
    \/ EntryPointsDone
    \/ MemberRow
    \/ MemberSkipped
    \/ FinishPage
    \/ EmitWithFrontMatterFails
    \/ BeforeWritePage
    \/ BeforeWritePageFails
    \/ WriteFile
    \/ WriteFileFails

\* The document-node layer after the constructor of the documenter has read
\* CustomDocNodes.configuration for the first time in the process.
NodesConstructed ==
    LET got == configurationGetter(Undefined, 0)
    IN  /\ configuration = got.configuration
        /\ created = got.created
        /\ registrations = got.registered
        /\ returned = << got.configuration.id >>
        /\ parentNode = NoContainer
        /\ nodeError = got.error

\* A run of the hugo action or of a caller that passes a configuration:
\* new HugoDocumenter(options).generateFiles()
Init ==
    /\ apiModel \in Trees
    /\ documenterConfig \in Configs
    /\ feature = FALSE
    /\ pc = "load"
    /\ stack = <<>>
    /\ files = {}
    /\ trace = <<>>
    /\ links = {}
    /\ error = NoError
    /\ runNo = 1
    /\ prevWrites = <<>>
    /\ NodesConstructed

Next ==
    \/ LoadPlugins
    \/ LoadPluginsFails
    \/ DeleteOldOutputFiles
    \/ PageStep
    \/ OnFinished
    \/ Rerun

Spec == Init /\ [][Next]_vars

\* One call _writeApiItemPage(apiItem) on any item of the tree, by a
\* documenter whose plugin feature is loaded or not as its configuration says.
InitPage ==
    /\ apiModel \in Trees
    /\ documenterConfig \in Configs
    /\ feature = (documenterConfig.present /\ documenterConfig.plugin # "none")
    /\ pc = "page"
    /\ stack \in {<< Frame(id) >> : id \in AllIds}
    /\ files = {}
    /\ trace = <<>>
    /\ links = {}
    /\ error = NoError
    /\ runNo = 1
    /\ prevWrites = <<>>
    /\ NodesConstructed

NextPage ==
    \/ PageStep
    \/ UnsupportedKind
    \/ PageReturned

SpecPage == InitPage /\ [][NextPage]_vars

-----------------------------------------------------------------------------
(* The document-node layer on its own: accesses to the configuration from *)
(* any number of documenters, and nodes built with it                     *)

\* The variables of the documenter, which no node operation touches.
documenterVars == <<apiModel, documenterConfig, feature, pc, stack, files, trace,
                    links, error, runNo, prevWrites>>

\* An access to CustomDocNodes.configuration (the constructor of a
\* documenter, or any other reader).
GetConfiguration ==
    /\ Len(returned) < MaxAccesses
    /\ LET got == configurationGetter(configuration, created)
       IN  /\ configuration' = got.configuration
           /\ created' = got.created
           /\ registrations' = registrations \o got.registered
           /\ returned' = Append(returned, got.configuration.id)
           /\ nodeError' = got.error
    /\ UNCHANGED parentNode
    /\ UNCHANGED documenterVars

\* new DocSection / DocParagraph / DocEmphasisSpan({ configuration })
NewContainer ==
    /\ configuration.id # 0
    /\ \E kind \in DocNodeContainerKinds :
          parentNode' = [kind |-> kind, nodes |-> <<>>]
    /\ nodeError' = ""
    /\ UNCHANGED <<configuration, created, registrations, returned>>
    /\ UNCHANGED documenterVars

\* DocNodeContainer.appendNode of a node whose kind is an allowable child.
\* (An error has left the construction of the node: nothing is appended
\* to it afterwards.)
AppendNode ==
    /\ parentNode.kind # "" /\ Len(parentNode.nodes) < MaxChildren
    /\ nodeError = ""
    /\ \E childKind \in configuration.docNodeKinds :
          /\ isAllowedChild(configuration, parentNode.kind, childKind)
          /\ parentNode' = [parentNode EXCEPT !.nodes = Append(@, childKind)]
    /\ nodeError' = ""
    /\ UNCHANGED <<configuration, created, registrations, returned>>
    /\ UNCHANGED documenterVars

\* DocNodeContainer.appendNode throws: the kind is no allowable child.
AppendNodeFails ==
    /\ parentNode.kind # ""
    /\ nodeError = ""
    /\ \E childKind \in configuration.docNodeKinds :
          /\ ~isAllowedChild(configuration, parentNode.kind, childKind)
          /\ nodeError' = "The TSDocConfiguration does not allow a " \o parentNode.kind
                          \o " node to contain a node of type " \o childKind
    /\ UNCHANGED <<configuration, created, registrations, returned, parentNode>>
    /\ UNCHANGED documenterVars

\* The process has started and no documenter has been constructed yet.
InitNodes ==
    /\ apiModel = TreeWidgets(1)
    /\ documenterConfig = NoConfig
    /\ feature = FALSE
    /\ pc = "load"
    /\ stack = <<>>
    /\ files = {}
    /\ trace = <<>>
    /\ links = {}
    /\ error = NoError
    /\ runNo = 1
    /\ prevWrites = <<>>
    /\ configuration = Undefined
    /\ created = 0
    /\ registrations = <<>>
    /\ returned = <<>>
    /\ parentNode = NoContainer
    /\ nodeError = ""

NextNodes ==
    \/ GetConfiguration
    \/ NewContainer
    \/ AppendNode
    \/ AppendNodeFails

SpecNodes == InitNodes /\ [][NextNodes]_vars

-----------------------------------------------------------------------------
(* Vocabulary of the properties *)

WritesOfItem(id) == {i \in EventsOf("write") : trace[i].apiItem = id}

\* The entry point with the empty import path
IsRootEntryPoint(id) == ItemOf(id).kind = "EntryPoint" /\ ItemOf(id).name = <<>>

\* The items for which the documenter writes a page
AddressableIds == {id \in AllIds : ItemOf(id).kind \in PageKinds /\ ~IsRootEntryPoint(id)}

\* The page-owning kinds: model, package, entry point, namespace, class,
\* interface, enum, constructor, method, function, property, type alias,
\* variable.
PageOwningIds ==
    {id \in AddressableIds :
        ItemOf(id).kind \in {"Model", "Package", "EntryPoint", "Namespace", "Class",
                             "Interface", "Enum", "Constructor", "Method",
                             "Function", "Property", "TypeAlias", "Variable"}}

\* The path under the output folder at which the page of an item belongs
PageFile(id) == pathJoin(outputFolder, _getFilenameForApiItem(id))

Completed == pc = "done"

-----------------------------------------------------------------------------
(* C1 *)

\* C1: any two distinct addressable items of one tree resolve to different
\* output paths (overloads, a variable and a same-named sibling, same-named
\* siblings of different kinds, a package and its entry points).
C1_DistinctPaths ==
    \A a, b \in AddressableIds :
        a # b => _getFilenameForApiItem(a) # _getFilenameForApiItem(b)

-----------------------------------------------------------------------------
(* C2 *)

\* The tree of the example: @scope/widgets, entry point "", class Widget
\* with two overloaded constructors.  Widget is <<1, 1, 1>>, its
\* constructors are <<1, 1, 1, 1>> and <<1, 1, 1, 2>>.
IsWidgetsExample == apiModel = TreeWidgets(2)

\* C2 as stated: Widget resolves to widgets/Widget/_index, its first
\* constructor to widgets/Widget/constructor/_index and the second
\* overload to widgets/Widget/constructor_1/_index.
C2_PathsAsStated ==
    IsWidgetsExample =>
        /\ _getFilenameForApiItem(<<1, 1, 1>>) = "widgets/Widget/_index"
        /\ _getFilenameForApiItem(<<1, 1, 1, 1>>) = "widgets/Widget/constructor/_index"
        /\ _getFilenameForApiItem(<<1, 1, 1, 2>>) = "widgets/Widget/constructor_1/_index"

\* C2 (amended): in the example the entry point with the empty import path
\* contributes the segment _root, the constructor's segment is the safe form
\* of its display name "(constructor)" and the file is _index.md: Widget
\* resolves to widgets/_root/Widget/_index.md, the first constructor to
\* widgets/_root/Widget/_constructor_/_index.md, the second overload to
\* widgets/_root/Widget/_constructor__1/_index.md, and the pages are
\* written there.
C2_ExamplePaths ==
    IsWidgetsExample =>
        /\ _getFilenameForApiItem(<<1, 1, 1>>) = "widgets/_root/Widget/_index.md"
        /\ _getFilenameForApiItem(<<1, 1, 1, 1>>)
               = "widgets/_root/Widget/_constructor_/_index.md"
        /\ _getFilenameForApiItem(<<1, 1, 1, 2>>)
               = "widgets/_root/Widget/_constructor__1/_index.md"
        /\ \A i \in EventsOf("write") :
              /\ trace[i].apiItem = <<1, 1, 1>>
                    => trace[i].filename = "out/widgets/_root/Widget/_index.md"
              /\ trace[i].apiItem = <<1, 1, 1, 1>>
                    => trace[i].filename = "out/widgets/_root/Widget/_constructor_/_index.md"
              /\ trace[i].apiItem = <<1, 1, 1, 2>>
                    => trace[i].filename = "out/widgets/_root/Widget/_constructor__1/_index.md"

\* The pages of Widget and of its two constructors have been written.
C2_Witness ==
    /\ IsWidgetsExample
    /\ WritesOfItem(<<1, 1, 1>>) # {}
    /\ WritesOfItem(<<1, 1, 1, 1>>) # {}
    /\ WritesOfItem(<<1, 1, 1, 2>>) # {}

-----------------------------------------------------------------------------
(* C3 *)

\* The paths, relative to the output folder, of the files that the write
\* events of the run have written.
WrittenPaths ==
    {_getFilenameForApiItem(trace[i].apiItem) :
        i \in {j \in EventsOf("write") :
                 /\ trace[j].filename = PageFile(trace[j].apiItem)
                 /\ \E f \in files : f.filename = trace[j].filename}}

\* C3: the link URL of an item is the base URL followed by the item's
\* resolved output path, and when a run has completed every link
\* destination the builder generated is the base URL followed by the path
\* of a file written during that run.
C3_LinksHitWrittenFiles ==
    Completed =>
        LET written == WrittenPaths
        IN  \A l \in links :
                /\ l[2] = baseUrl \o "/" \o _getFilenameForApiItem(l[1])
                /\ \E rel \in written : l[2] = baseUrl \o "/" \o rel

\* A completed run that generated a title link, an "(Inherited from X)"
\* link, a link to an enum member from an excerpt and a link to the entry
\* point with the empty import path.
C3_Witness ==
    /\ Completed
    /\ \E l \in links : ItemOf(l[1]).kind = "EnumMember"
    /\ \E l \in links : IsRootEntryPoint(l[1])
    /\ \E l \in links : ItemOf(l[1]).kind = "Method"
    /\ \E i \in EventsOf("write") :
          \E j \in 1..Len(trace[i].content.body) :
              /\ trace[i].content.body[j].node = "Table"
              /\ \E r \in 1..Len(trace[i].content.body[j].rows) :
                    trace[i].content.body[j].rows[r].inheritedFrom # ""

-----------------------------------------------------------------------------
(* C4 *)

\* C4: in a run that completes every page-owning item reachable from the
\* model has its page written exactly once, at the output folder plus its
\* resolved path.
C4_WrittenExactlyOnce ==
    Completed =>
        \A id \in PageOwningIds :
            /\ Cardinality(WritesOfItem(id)) = 1
            /\ \A i \in WritesOfItem(id) : trace[i].filename = PageFile(id)

-----------------------------------------------------------------------------
(* C5 *)

\* C5: in every run the output folder is cleared at most once and before
\* the first page is handed to the hook or written; the finished hook is
\* invoked only when a plugin feature is present, at most once, after the
\* model's page has been written and as the last event of the run; a run
\* that has started on the pages has cleared the folder exactly once,
\* whether it completes or not, and a run that completes with a plugin
\* feature has invoked the finished hook exactly once.
C5_ClearFirstFinishedLast ==
    /\ Cardinality(EventsOf("clear")) <= 1
    /\ \A i \in EventsOf("write") \cup EventsOf("before") :
          \E j \in EventsOf("clear") : j < i
    /\ \A i \in EventsOf("finished") :
          /\ feature
          /\ i = Len(trace)
          /\ \E j \in WritesOfItem(<<>>) :
                j < i /\ \A k \in EventsOf("write") : k <= j
    /\ (pc \in {"generate", "done"} \/ stack # <<>>) =>
          Cardinality(EventsOf("clear")) = 1
    /\ Completed =>
          Cardinality(EventsOf("finished")) = (IF feature THEN 1 ELSE 0)

\* A completed run with a plugin: cleared first, pages written, the
\* finished hook last.
C5_Witness ==
    /\ Completed /\ feature
    /\ trace[1].type = "clear"
    /\ trace[Len(trace)].type = "finished"
    /\ Cardinality(EventsOf("write")) > 1

-----------------------------------------------------------------------------
(* C6 *)

ContainerKinds == {"Model", "Package", "Namespace", "Class", "Interface"}

RECURSIVE WrittenInOrder(_, _, _, _)
\* The pages of members[m], members[m + 1], ... are written, in this order,
\* by events at positions p, ..., k - 1 of the trace.
WrittenInOrder(members, m, p, k) ==
    IF m > Len(members) THEN TRUE
    ELSE IF p >= k THEN FALSE
    ELSE IF trace[p].type = "write" /\ trace[p].apiItem = members[m]
         THEN WrittenInOrder(members, m + 1, p + 1, k)
         ELSE WrittenInOrder(members, m, p + 1, k)

\* The members in the rows of the member tables of a page body.
RowMembers(body) ==
    UNION {{body[j].rows[r].apiItem : r \in 1..Len(body[j].rows)} :
              j \in {n \in 1..Len(body) :
                       body[n].node = "Table" /\ body[n].text # "Entrypoints"}}

\* C6: in a completed run, for every written page of a model, package,
\* namespace, class or interface, the members in the rows of its tables are
\* the members its loop added in iteration order, the page of each of them
\* was written before the page itself, in that order; and the last page
\* written is the model's.
C6_PostOrder ==
    Completed =>
        /\ \A k \in EventsOf("write") :
              ItemOf(trace[k].apiItem).kind \in ContainerKinds =>
                  /\ RowMembers(trace[k].content.body)
                        = {trace[k].listed[m] : m \in 1..Len(trace[k].listed)}
                  /\ WrittenInOrder(trace[k].listed, 1, 1, k)
        /\ \E k \in WritesOfItem(<<>>) : \A j \in EventsOf("write") : j <= k

\* A completed run in which a package page lists several members and a
\* namespace nested in a namespace was written.
C6_Witness ==
    /\ Completed
    /\ \E k \in EventsOf("write") :
          /\ ItemOf(trace[k].apiItem).kind = "Package"
          /\ Len(trace[k].listed) > 3
    /\ \E k \in EventsOf("write") :
          /\ ItemOf(trace[k].apiItem).kind = "Namespace"
          /\ Len(trace[k].apiItem) > 3

-----------------------------------------------------------------------------
(* C7 *)

LastEvent == trace[Len(trace)]
LastIs(type) == Len(trace) > 0 /\ LastEvent.type = type

\* C7: with a plugin feature, a write is directly preceded by the one
\* invocation of the pre-write hook for that page, which got the item, the
\* resolved filename and the emitted text; the text written is the text
\* the hook left and the file is the resolved one whatever the hook did to
\* its filename argument; after a hook invocation comes that page's write
\* or the error that ends the run.  Without a plugin feature no hook is
\* invoked and the text written is the emitted text.  (Stated for the most
\* recent write: every write is the most recent event of the state that
\* follows it.)
C7_HookThenWrite ==
    /\ \A i \in EventsOf("before") :
          /\ feature
          /\ i < Len(trace) =>
                \/ trace[i + 1].type = "error"
                \/ trace[i + 1].type = "write" /\ trace[i + 1].apiItem = trace[i].apiItem
    /\ LastIs("write") =>
          LET w == LastEvent
              emitted == emitWithFrontMatter(w.content.body, PageTitle(w.apiItem),
                                             ItemOf(w.apiItem).kind)
          IN  /\ w.filename = PageFile(w.apiItem)
              /\ \E f \in files : f.filename = w.filename /\ f.content = w.content
              /\ IF feature
                 THEN /\ Len(trace) > 1
                      /\ LET h == trace[Len(trace) - 1]
                         IN  /\ h.type = "before"
                             /\ h.apiItem = w.apiItem
                             /\ h.filename = w.filename
                             /\ h.content = emitted
                             /\ w.content = HookedContent(h.content)
                 ELSE w.content = emitted

\* A page was written after a hook that rewrote the text and the filename
\* argument.
C7_Witness ==
    /\ LastIs("write")
    /\ feature /\ documenterConfig.plugin = "rewrite"
    /\ LastEvent.content.pluginNote # ""
    /\ HookedFilename(LastEvent.filename) # LastEvent.filename
    /\ Len(LastEvent.apiItem) > 2

-----------------------------------------------------------------------------
(* C8 *)

\* C8: once an error has been raised the run has ended: the error is the
\* last event of the run, so no page is written after it (no later
\* sibling, no ancestor, not the model's page) and the finished hook is not
\* invoked; the files written before the error are all still there.
C8_ErrorEndsRun ==
    /\ (error # NoError) = (pc = "failed")
    /\ \A i \in EventsOf("error") : i = Len(trace) /\ pc = "failed"
    /\ pc = "failed" =>
          /\ LastIs("error")
          /\ EventsOf("finished") = {}
          /\ WritesOfItem(<<>>) = {}
          /\ \A i \in EventsOf("write") :
                \E f \in files : f.filename = trace[i].filename

\* A run that failed inside a nested page after other pages were written.
C8_Witness ==
    /\ pc = "failed"
    /\ Len(stack) > 3
    /\ Cardinality(EventsOf("write")) > 3
    /\ Cardinality(files) > 3

-----------------------------------------------------------------------------
(* C9 *)

\* C9: building a page for an item of a kind without a case in the title
\* switch fails with an error that names the kind, and it fails before any
\* node is appended to the page, before the hook is invoked and before a
\* file is written for the item: the activation record of such an item
\* never gets past its entry nor gets a node, no hook or write event is
\* ever about it, and the error, when raised, names its kind.
C9_UnsupportedKindFailsFirst ==
    /\ \A n \in 1..Len(stack) :
          ItemOf(stack[n].apiItem).kind \notin PageKinds =>
              /\ stack[n].pc = "enter"
              /\ stack[n].output = <<>>
              /\ n = Len(stack)
    /\ \A i \in 1..Len(trace) :
          ItemOf(trace[i].apiItem).kind \notin PageKinds =>
              /\ trace[i].type = "error"
              /\ error = "Unsupported API item kind: " \o ItemOf(trace[i].apiItem).kind
    /\ (stack # <<>> /\ ItemOf(Top.apiItem).kind \notin PageKinds /\ pc # "page") =>
          /\ pc = "failed"
          /\ error = "Unsupported API item kind: " \o ItemOf(Top.apiItem).kind
          /\ LastIs("error") /\ LastEvent.apiItem = Top.apiItem

\* The page of an enum member was asked for and the run failed, naming the
\* kind, with nothing appended and nothing written.
C9_Witness ==
    /\ pc = "failed"
    /\ error = "Unsupported API item kind: EnumMember"
    /\ Len(stack) = 1 /\ ItemOf(Top.apiItem).kind = "EnumMember"
    /\ ItemOf(Top.apiItem).releaseTag = "Alpha"
    /\ Top.output = <<>>
    /\ files = {}
    /\ EventsOf("before") = {} /\ EventsOf("write") = {}

-----------------------------------------------------------------------------
(* C10 *)

-----------------------------------------------------------------------------
(* C11 *)

\* A reference token for which declaration-reference resolution yields an
\* item of the model.
ResolvesToItem(token) ==
    token.kind = "Reference" /\ token.ref.canonical /\ token.ref.resolved

\* The nodes rendered for the tokens of an excerpt are, token by token, a
\* link node to the page of the item when the token resolves to an item,
\* and otherwise a plain-text node with the token's text and no destination.
RenderedAsStated(nodes, tokens) ==
    /\ Len(nodes) = Len(tokens)
    /\ \A i \in 1..Len(tokens) :
          /\ nodes[i].text = tokens[i].text
          /\ IF ResolvesToItem(tokens[i])
             THEN /\ nodes[i].node = "LinkTag"
                  /\ nodes[i].url = _getLinkFilenameForApiItem(tokens[i].ref.id)
             ELSE /\ nodes[i].node = "PlainText"
                  /\ nodes[i].url = ""

\* The nodes of a page body that follow its "Extends: " paragraph, as many
\* as n.
AfterExtends(body, n) ==
    LET at == {j \in 1..Len(body) :
                  body[j].node = "Paragraph" /\ body[j].text = "Extends: "}
    IN  IF at = {} THEN <<>>
        ELSE LET j == CHOOSE k \in at : TRUE
             IN  SubSeq(body, j + 1, j + n)

\* The classes and properties of the model with a reference token that
\* does not resolve or has no canonical reference.
HasUnresolvedToken(id) ==
    /\ \/ ItemOf(id).kind = "Class" /\ ItemOf(id).hasExtends
       \/ ItemOf(id).kind \in {"Property", "PropertySignature"}
    /\ \E i \in 1..Len(ItemOf(id).tokens) :
          ItemOf(id).tokens[i].kind = "Reference" /\ ~ResolvesToItem(ItemOf(id).tokens[i])

\* C11: on a written page, a reference token of a rendered excerpt (the
\* extends clause of a class, the type cell of a property row) that does not
\* resolve to an item, or that has no canonical reference, is a plain-text
\* node with the token's text; a link node stands only where resolution
\* yields an item, and it leads to that item's page; every link registered
\* is a link to an item of the model; no error is raised for such a token:
\* the page is written and a completed run has written the page of every
\* item that holds one.  (Stated for the most recent write, as for C7.)
C11_UnresolvedIsPlainText ==
    /\ LastIs("write") =>
          LET w == LastEvent
              item == ItemOf(w.apiItem)
              body == w.content.body
          IN  /\ (item.kind = "Class" /\ item.hasExtends) =>
                    RenderedAsStated(AfterExtends(body, Len(item.tokens)), item.tokens)
              /\ \A j \in 1..Len(body) :
                    (body[j].node = "Table" /\ body[j].text \in {"Properties", "Events"}) =>
                        \A r \in 1..Len(body[j].rows) :
                            RenderedAsStated(body[j].rows[r].typeNodes,
                                             ItemOf(body[j].rows[r].apiItem).tokens)
    /\ Completed =>
          /\ \A l \in links : l[1] \in AllIds
          /\ \A id \in AllIds : HasUnresolvedToken(id) => WritesOfItem(id) # {}

\* The page of class Derived was written with the row of property size,
\* whose type has a resolved reference and one without canonical reference;
\* the page of class Orphan, which extends a class that is not in the model,
\* was written before it or is the one just written.
C11_Witness ==
    /\ LastIs("write")
    /\ \/ /\ ItemOf(LastEvent.apiItem).name = N_Orphan
          /\ \E j \in 1..Len(LastEvent.content.body) :
                /\ LastEvent.content.body[j].node = "PlainText"
                /\ LastEvent.content.body[j].text = "External"
       \/ /\ ItemOf(LastEvent.apiItem).name = N_Derived
          /\ \E j \in 1..Len(LastEvent.content.body) :
                /\ LastEvent.content.body[j].node = "Table"
                /\ \E r \in 1..Len(LastEvent.content.body[j].rows) :
                      \E t \in 1..Len(LastEvent.content.body[j].rows[r].typeNodes) :
                          /\ LastEvent.content.body[j].rows[r].typeNodes[t].node = "PlainText"
                          /\ LastEvent.content.body[j].rows[r].typeNodes[t].text = "this"

-----------------------------------------------------------------------------
(* C12 *)

\* The titles of all the tables a page can have.
AllTableTitles ==
    {"Packages", "Entrypoints", "Classes", "Abstract Classes", "Enumerations",
     "Functions", "Interfaces", "Namespaces", "Variables", "Type Aliases",
     "Events", "Constructors", "Properties", "Methods", "Enumeration Members",
     "Parameters"}

\* The titles of the table nodes of a page body.
TablesIn(body) == {body[j].text : j \in {n \in 1..Len(body) : body[n].node = "Table"}}

\* The write events of the pages of the items named `name`.
WritesNamed(kind, name) ==
    {i \in EventsOf("write") :
        ItemOf(trace[i].apiItem).kind = kind /\ ItemOf(trace[i].apiItem).name = name}

\* C12: in the body of a written page every table node has at least one
\* row and directly follows the heading with its title, every heading with
\* the title of a table is directly followed by that table, each table
\* occurs at most once, and a member table whose loop added no row (no
\* member listed by the page belongs to it) is not in the body, nor is its
\* heading.  (Stated for the most recent write, as for C7.)
C12_NoEmptyTable ==
    LastIs("write") =>
        LET w == LastEvent
            kind == ItemOf(w.apiItem).kind
            body == w.content.body
        IN  /\ \A j \in 1..Len(body) :
                  /\ body[j].node = "Table" =>
                        /\ Len(body[j].rows) >= 1
                        /\ j > 1
                        /\ body[j - 1].node = "Heading"
                        /\ body[j - 1].text = body[j].text
                        /\ \A n \in 1..Len(body) :
                              (body[n].node = "Table" /\ body[n].text = body[j].text)
                                  => n = j
                  /\ (body[j].node = "Heading" /\ body[j].text \in AllTableTitles) =>
                        /\ j < Len(body)
                        /\ body[j + 1].node = "Table"
                        /\ body[j + 1].text = body[j].text
            /\ kind \in ContainerKinds =>
                  \A t \in 1..Len(TableTitles(kind)) :
                      (TableTitles(kind)[t] \in TablesIn(body))
                          = (\E m \in 1..Len(w.listed) :
                                TableOf(kind, ItemOf(w.listed[m])) = TableTitles(kind)[t])
            /\ ("Parameters" \in TablesIn(body)) = (ItemOf(w.apiItem).parameters > 0)
            /\ ("Enumeration Members" \in TablesIn(body))
                  = (kind = "Enum" /\ ItemOf(w.apiItem).members # <<>>)

\* A completed run that wrote the page of namespace ns with two of its
\* eight tables, the page of class Inner with no table, the page of an
\* overload of make with a Parameters table and the page of the first
\* overload without one.
C12_Witness ==
    /\ Completed
    /\ \E i \in WritesNamed("Namespace", N_ns) :
          TablesIn(trace[i].content.body) = {"Classes", "Namespaces"}
    /\ \E i \in WritesNamed("Class", N_Inner) : TablesIn(trace[i].content.body) = {}
    /\ \E i \in WritesNamed("Function", N_make) :
          TablesIn(trace[i].content.body) = {"Parameters"}
    /\ \E i \in WritesNamed("Function", N_make) : TablesIn(trace[i].content.body) = {}

-----------------------------------------------------------------------------
(* C13 *)

RECURSIVE FirstOccurrences(_, _)
\* The elements of a sequence in order of first occurrence, without those
\* in `seen`.
FirstOccurrences(ids, seen) ==
    IF ids = <<>> THEN <<>>
    ELSE IF Head(ids) \in seen THEN FirstOccurrences(Tail(ids), seen)
    ELSE <<Head(ids)>> \o FirstOccurrences(Tail(ids), seen \cup {Head(ids)})

\* The known items that the excerpt of an item references, each once, in
\* order of first occurrence.
ReferencedItems(item) ==
    LET resolving == SelectSeq(item.tokens, ResolvesToItem)
    IN  FirstOccurrences([i \in 1..Len(resolving) |-> resolving[i].ref.id], {})

\* C13: on the written page of a type alias the links of the "References:"
\* list are the links to the known items its excerpt references, each item
\* once, in order of first occurrence (so two distinct items are both
\* listed even when their token texts coincide), and the list is there
\* exactly when some token resolves.  (Stated for the most recent write.)
C13_ReferencesOncePerItem ==
    (LastIs("write") /\ ItemOf(LastEvent.apiItem).kind = "TypeAlias") =>
        LET body == LastEvent.content.body
            listed == SelectSeq(body, LAMBDA n : n.node = "LinkTag")
            expected == ReferencedItems(ItemOf(LastEvent.apiItem))
        IN  /\ [i \in 1..Len(listed) |-> listed[i].url]
                  = [i \in 1..Len(expected) |-> _getLinkFilenameForApiItem(expected[i])]
            /\ (\E j \in 1..Len(body) :
                   body[j].node = "Paragraph" /\ body[j].text = "References: ")
                  = (expected # <<>>)

-----------------------------------------------------------------------------
(* C14 *)

\* The positions of the example headings of a page body: the headings
\* titled "Example" or "Example <number>".
ExampleHeadings(body) ==
    {j \in 1..Len(body) :
        /\ body[j].node = "Heading"
        /\ body[j].text \in {"Example"} \cup {"Example " \o ToString(i) : i \in 1..Len(body)}}

\* The example headings of the body are those of n example blocks: none
\* for n = 0, one titled "Example" for n = 1, "Example 1" ... "Example n"
\* in this order for n > 1, each directly followed by the content of its
\* block.
ExamplesAsStated(body, n) ==
    LET at == ExampleHeadings(body)
    IN  /\ Cardinality(at) = n
        /\ \A j \in at :
              LET i == Cardinality({k \in at : k <= j})
              IN  /\ body[j].text = (IF n = 1 THEN "Example"
                                     ELSE "Example " \o ToString(i))
                  /\ j < Len(body)
                  /\ body[j + 1] = Node("Section", "example block " \o ToString(i))

\* C14: the body of the written page of an item whose comment has n
\* @example blocks has no example heading when n = 0, exactly one, titled
\* "Example", when n = 1, and the headings "Example 1" ... "Example n" in
\* comment order when n > 1, each directly followed by the content of its
\* block.  (Stated for the most recent write, as for C7.)
C14_ExampleHeadings ==
    LastIs("write") =>
        ExamplesAsStated(LastEvent.content.body, ItemOf(LastEvent.apiItem).examples)

\* A completed run that wrote the page of class Widget (three examples),
\* of class Base (one example, after its remarks), of method Base.run (two
\* examples) and of pages without an example.
C14_Witness ==
    /\ Completed
    /\ \E i \in WritesNamed("Class", N_Widget) :
          Cardinality(ExampleHeadings(trace[i].content.body)) = 3
    /\ \E i \in WritesNamed("Class", N_Base) :
          \E j \in ExampleHeadings(trace[i].content.body) :
              /\ trace[i].content.body[j].text = "Example"
              /\ trace[i].content.body[j - 1] = Node("Section", "remarks")
    /\ \E i \in WritesNamed("Method", N_run) :
          \E j \in ExampleHeadings(trace[i].content.body) :
              trace[i].content.body[j].text = "Example 2"
    /\ \E i \in WritesNamed("Method", N_run) :
          ExampleHeadings(trace[i].content.body) = {}

-----------------------------------------------------------------------------
(* C15 *)

\* The advisory paragraph of an inheritance query whose result may be
\* incomplete.
Advisory ==
    Node("Paragraph",
         "(Some inherited members may not be shown because they are not represented in the documentation.)")

\* The page of a class or interface built with inherited-member display
\* enabled whose inheritance query reports a possibly incomplete result.
IsIncompletePage(id) ==
    /\ ItemOf(id).kind \in {"Class", "Interface"}
    /\ showInheritedMembers
    /\ findMembersWithInheritance(id).maybeIncompleteResult

\* The log events of the run about an item.
LogsOf(id) == {i \in EventsOf("log") : trace[i].apiItem = id}

-----------------------------------------------------------------------------
(* C16 *)

\* The items with a parameter list that have a page.
ParameterListIds ==
    {id \in AddressableIds : ItemOf(id).kind \in ParameterListKinds}

\* The other members of the parent of an item.
SiblingsOf(id) ==
    {ParentId(id) \o <<i>> : i \in 1..Len(ItemOf(ParentId(id)).members)} \ {id}

\* The segment rule of the items with a parameter list: the path is the
\* directory of the ancestors followed by the safe display name, with
\* "_<index - 1>" at its end when the overload index is greater than 1; and
\* same-named overloads under one parent resolve to distinct paths.
OverloadSegmentRule ==
    \A id \in ParameterListIds :
        LET item == ItemOf(id)
            safe == Str(getSafeFilenameForName(displayName(item)))
            segment == IF item.overloadIndex > 1
                       THEN safe \o "_" \o ToString(item.overloadIndex - 1)
                       ELSE safe
        IN  /\ _getFilenameForApiItem(id)
                  = baseNameAfter(id, Len(id)) \o "/" \o segment \o "/_index.md"
            /\ \A other \in SiblingsOf(id) \cap ParameterListIds :
                  (/\ ItemOf(other).kind = item.kind
                   /\ ItemOf(other).name = item.name
                   /\ ItemOf(other).overloadIndex # item.overloadIndex)
                      => _getFilenameForApiItem(other) # _getFilenameForApiItem(id)

\* C16: the segment of an item with a parameter list is its safe display
\* name, followed by "_<index - 1>" when its overload index is greater than
\* 1; same-named overloads under one parent resolve to pairwise distinct
\* paths; and no other sibling resolves to the path of an overload with a
\* suffixed segment.
C16_OverloadSegments ==
    /\ OverloadSegmentRule
    /\ \A id \in ParameterListIds :
          ItemOf(id).overloadIndex > 1 =>
              \A other \in SiblingsOf(id) :
                  _getFilenameForApiItem(other) # _getFilenameForApiItem(id)

-----------------------------------------------------------------------------
(* C17 *)

\* The segment of a package: the safe form of its unscoped name.
PackageSegment(id) ==
    Str(getSafeFilenameForName(getUnscopedName(displayName(ItemOf(id)))))

\* The ids of the packages, and of the entry points with the empty import
\* path of a package.
PackageIds == {id \in AllIds : ItemOf(id).kind = "Package"}
RootEntryPointsOf(pkg) ==
    {pkg \o <<i>> : i \in {j \in 1..Len(ItemOf(pkg).members) :
                            ItemOf(pkg).members[j].name = <<>>}}

RECURSIVE SegmentsBelow(_, _)
\* The segments that the items of id's hierarchy from position k on
\* contribute, each with its "/" in front.
SegmentsBelow(id, k) ==
    IF k > Len(id) + 1 THEN ""
    ELSE LET hierarchyItem == ItemOf(getHierarchy(id)[k])
             segment == CASE hierarchyItem.kind = "EnumMember" -> ""
                          [] hierarchyItem.kind = "EntryPoint" ->
                                IF hierarchyItem.name = <<>> THEN "/_root"
                                ELSE "/" \o Str(getSafeFilenameForName(
                                                    getUnscopedName(hierarchyItem.name)))
                          [] OTHER -> "/" \o qualifiedName(hierarchyItem)
         IN  segment \o SegmentsBelow(id, k + 1)

\* C17: a package itself resolves to <unscoped safe package name>/_root/
\* and the file _index (with the page extension), which is where its entry
\* point with the empty import path resolves to, and the page of the
\* package is written there; for a descendant of the package, the package
\* has contributed only <unscoped safe package name> when the resolver's
\* loop has handled it, and the resolved path is that segment followed by
\* the segments of the items below the package, with no _root of the
\* package's own.  (The dynamic part is stated for the most recent write.)
C17_PackagePath ==
    /\ Completed =>
          /\ \A pkg \in PackageIds :
                /\ _getFilenameForApiItem(pkg) = PackageSegment(pkg) \o "/_root/_index.md"
                /\ \A entry \in RootEntryPointsOf(pkg) :
                      _getFilenameForApiItem(entry) = _getFilenameForApiItem(pkg)
          /\ \A id \in AllIds :
                Len(id) > 1 =>
                    /\ baseNameAfter(id, 2) = PackageSegment(<<id[1]>>)
                    /\ _getFilenameError(id) = "" =>
                          _getFilenameForApiItem(id)
                              = PackageSegment(<<id[1]>>) \o SegmentsBelow(id, 3)
                                \o "/_index.md"
    /\ LastIs("write") =>
          LET id == LastEvent.apiItem
          IN  /\ ItemOf(id).kind = "Package" =>
                    LastEvent.filename
                        = pathJoin(outputFolder, PackageSegment(id) \o "/_root/_index.md")
              /\ Len(id) > 1 =>
                    LastEvent.filename
                        = pathJoin(outputFolder,
                                   PackageSegment(<<id[1]>>) \o SegmentsBelow(id, 3)
                                   \o "/_index.md")

\* A completed run over the model with packages lib and @scope/widgets:
\* the page of @scope/widgets was written to out/widgets/_root/_index.md,
\* the page of class Widget below it to out/widgets/_root/Widget/_index.md,
\* and a page of lib's second entry point below out/lib/e2.
C17_Witness ==
    /\ Completed
    /\ \E i \in WritesNamed("Package", N_widgets) :
          trace[i].filename = "out/widgets/_root/_index.md"
    /\ \E i \in WritesNamed("Class", N_Widget) :
          trace[i].filename = "out/widgets/_root/Widget/_index.md"
    /\ \E i \in WritesNamed("Class", N_Foo) :
          trace[i].filename = "out/lib/e2/Foo/_index.md"

-----------------------------------------------------------------------------
(* C18 *)

\* The ids of the entry points.
EntryPointIds == {id \in AllIds : ItemOf(id).kind = "EntryPoint"}

\* The segment of an entry point as stated: _root for the empty import
\* sub-path, else the safe form of <unscoped package name>/<sub-path>.
EntryPointSegmentAsStated(id) ==
    IF ItemOf(id).name = <<>> THEN "_root"
    ELSE Str(getSafeFilenameForName(
                 getUnscopedName(displayName(ItemOf(ParentId(id))))
                 \o <<"/">> \o ItemOf(id).name))

\* C18: resolving the path of an entry point raises no error, whatever its
\* import sub-path, and the entry point contributes exactly one segment
\* after the package's: _root when its import sub-path is empty, else the
\* safe form of <unscoped package name>/<import sub-path>; so no run ends
\* with an error of the resolver.
C18_EntryPointSegment ==
    /\ \A id \in EntryPointIds :
          /\ _getFilenameError(id) = ""
          /\ _getFilenameForApiItem(id)
                = PackageSegment(ParentId(id)) \o "/" \o EntryPointSegmentAsStated(id)
                  \o "/_index.md"
    /\ pc = "failed" => \A id \in AllIds : error # _getFilenameError(id)

-----------------------------------------------------------------------------
(* C19 *)

\* The ids of the enum members.
EnumMemberIds == {id \in AllIds : ItemOf(id).kind = "EnumMember"}

\* C19: an enum member contributes no segment: it resolves to the path of
\* its enum, and a link to it leads to the enum's page; no page is built,
\* handed to the hook or written for an enum member, whose only place is a
\* row in plain text of the table on the page of its enum; and the model
\* resolves to the bare file _index (with the page extension), where its
\* page is written.  (The parts about a page are stated for the most recent
\* event, as for C7.)
C19_EnumMembersInline ==
    /\ _getFilenameForApiItem(<<>>) = "_index.md"
    /\ Completed =>
          /\ \A id \in EnumMemberIds :
                _getFilenameForApiItem(id) = _getFilenameForApiItem(ParentId(id))
          /\ \A l \in links :
                l[1] \in EnumMemberIds =>
                    l[2] = _getLinkFilenameForApiItem(ParentId(l[1]))
    /\ \A n \in 1..Len(stack) : ItemOf(stack[n].apiItem).kind # "EnumMember"
    /\ Len(trace) > 0 => ItemOf(LastEvent.apiItem).kind # "EnumMember"
    /\ LastIs("write") =>
          LET id == LastEvent.apiItem
              body == LastEvent.content.body
          IN  /\ id = <<>> => LastEvent.filename = pathJoin(outputFolder, "_index.md")
              /\ ItemOf(id).kind = "Enum" =>
                    /\ LastEvent.listed = <<>>
                    /\ \A j \in 1..Len(body) :
                          body[j].node = "Table" =>
                              /\ [r \in 1..Len(body[j].rows) |-> body[j].rows[r].apiItem]
                                    = MemberIds(id)
                              /\ \A r \in 1..Len(body[j].rows) : body[j].rows[r].url = ""
                    /\ ItemOf(id).members # <<>> => "Enumeration Members" \in TablesIn(body)

\* A completed run that wrote the page of enum Color with its two members
\* as rows, generated a link to the member Color.Red that leads to the page
\* of Color, and wrote the model's page to out/_index.md.
C19_Witness ==
    /\ Completed
    /\ \E i \in WritesNamed("Enum", N_Color) :
          \E j \in 1..Len(trace[i].content.body) :
              /\ trace[i].content.body[j].node = "Table"
              /\ Len(trace[i].content.body[j].rows) = 2
    /\ <<<<1, 1, 4, 1>>, "/docs/lib/_root/Color/_index.md">> \in links
    /\ \E i \in WritesOfItem(<<>>) : trace[i].filename = "out/_index.md"

-----------------------------------------------------------------------------
(* C20 *)

\* C20: the call that builds the page of an entry point with the empty
\* import path returns at once: its activation record never leaves its
\* entry, gets no title and no node, and no call is made from it (no member
\* page); no event of the run (hook, write, log, error) is about such an
\* entry point; and the file <package>/_root/_index of a package is written
\* only by the page of the package.  (The part about the file is stated for
\* the most recent write, as for C7.)
C20_RootEntryPointSkipped ==
    /\ \A n \in 1..Len(stack) :
          IsRootEntryPoint(stack[n].apiItem) =>
              /\ n = Len(stack)
              /\ stack[n].pc = "enter"
              /\ stack[n].title = ""
              /\ stack[n].output = <<>>
              /\ stack[n].listed = <<>>
    /\ Len(trace) > 0 => ~IsRootEntryPoint(LastEvent.apiItem)
    /\ LastIs("write") =>
          \A pkg \in PackageIds :
              LastEvent.filename
                    = pathJoin(outputFolder, PackageSegment(pkg) \o "/_root/_index.md")
                 => LastEvent.apiItem = pkg
    /\ Completed =>
          \A pkg \in PackageIds :
              \A entry \in RootEntryPointsOf(pkg) :
                  /\ WritesOfItem(entry) = {}
                  /\ \A i \in EventsOf("write") :
                        trace[i].filename = PageFile(entry) => trace[i].apiItem = pkg

\* A completed run over package lib with two entry points: the loop of
\* the package page has made the row of the entry point with the empty
\* import path and called its page (the link of the row is registered), no
\* page was written for it, and the package's page is the one write to
\* out/lib/_root/_index.md.
C20_Witness ==
    /\ Completed
    /\ <<<<1, 1>>, "/docs/lib/_root/_index.md">> \in links
    /\ IsRootEntryPoint(<<1, 1>>)
    /\ WritesOfItem(<<1, 1>>) = {}
    /\ WritesOfItem(<<1, 2>>) # {}
    /\ \E i \in WritesOfItem(<<1>>) : trace[i].filename = "out/lib/_root/_index.md"
    /\ Cardinality({i \in EventsOf("write") :
                       trace[i].filename = "out/lib/_root/_index.md"}) = 1

-----------------------------------------------------------------------------
(* C21: legal parent/child pairs of document nodes *)

\* The legal children as stated: the built-in pairs widened by Section with
\* Heading, NoteBox and Table, Paragraph with EmphasisSpan, and EmphasisSpan
\* with PlainText and SoftBreak.
StatedWidenings ==
    ({"Section"} \X {"Heading", "NoteBox", "Table"})
    \cup ({"Paragraph"} \X {"EmphasisSpan"})
    \cup ({"EmphasisSpan"} \X {"PlainText", "SoftBreak"})
StatedExtraKinds ==
    {"EmphasisSpan", "Heading", "NoteBox", "Table", "TableRow", "TableCell"}

\* Once the configuration exists it holds the six extra kinds and exactly the
\* stated widenings, and every append of the page builder is a legal pair.
ConfigurationAsStated ==
    configuration.id # 0 =>
        /\ configuration.docNodeKinds \ BuiltInDocNodeKinds = StatedExtraKinds
        /\ Cardinality(configuration.docNodeKinds \ BuiltInDocNodeKinds) = 6
        /\ BuiltInDocNodeKinds \subseteq configuration.docNodeKinds
        /\ configuration.allowableChildren
               = BuiltInAllowableChildren \cup StatedWidenings
        /\ StatedWidenings \cap BuiltInAllowableChildren = {}
        /\ BuilderAppends \subseteq configuration.allowableChildren

\* A step that makes the parent longer appends one child of a legal kind and
\* raises no error.
AppendIsLegal ==
    (parentNode.kind # "" /\ parentNode'.kind = parentNode.kind
        /\ Len(parentNode'.nodes) > Len(parentNode.nodes))
    => /\ \E childKind \in configuration.docNodeKinds :
            /\ <<parentNode.kind, childKind>>
                   \in BuiltInAllowableChildren \cup StatedWidenings
            /\ parentNode'.nodes = Append(parentNode.nodes, childKind)
       /\ nodeError' = ""

\* A step that raises an error on a parent leaves the parent as it was, and
\* the error names a kind outside the legal children of the parent's kind.
IllegalAppendFails ==
    (parentNode.kind # "" /\ nodeError' # "" /\ nodeError' # nodeError)
    => /\ parentNode' = parentNode
       /\ \E childKind \in configuration.docNodeKinds :
            /\ <<parentNode.kind, childKind>>
                   \notin BuiltInAllowableChildren \cup StatedWidenings
            /\ nodeError' = "The TSDocConfiguration does not allow a "
                            \o parentNode.kind
                            \o " node to contain a node of type " \o childKind

\* C21: a child is appended to a parent only when the child's kind is among
\* the legal children declared for the parent's kind, any other append fails
\* with an error and leaves the parent unchanged; the configuration holds
\* exactly six extra kinds and exactly the stated widenings; every append the
\* page builder performs is a legal pair.
C21_LegalChildren ==
    /\ []ConfigurationAsStated
    /\ [][AppendIsLegal /\ IllegalAppendFails]_vars

\* A Section that took a Heading and a Table has just refused a PlainText.
C21_Witness ==
    /\ parentNode = [kind |-> "Section", nodes |-> <<"Heading", "Table">>]
    /\ nodeError = "The TSDocConfiguration does not allow a Section"
                   \o " node to contain a node of type PlainText"

-----------------------------------------------------------------------------
(* C27: the configuration is built lazily, at most once per process *)

\* C27: after any number of accesses to CustomDocNodes.configuration the six
\* custom kinds have been registered exactly once, one configuration object
\* has been created, every access has returned that same object, and no
\* registration has failed with a duplicate kind; before the first access
\* nothing has been built.
C27_ConfiguredOnce ==
    /\ returned = <<>> =>
          /\ configuration = Undefined /\ created = 0 /\ registrations = <<>>
    /\ returned # <<>> =>
          /\ created = 1
          /\ Len(registrations) = 6
          /\ \A kind \in StatedExtraKinds :
                Cardinality({i \in 1..Len(registrations) : registrations[i] = kind}) = 1
          /\ configuration.id # 0
          /\ \A i \in 1..Len(returned) : returned[i] = configuration.id
    /\ nodeError # "The DocNodeKind was already registered"
    /\ nodeError # "The DocNodeKind was not registered"

\* The configuration has been read three times and a node was built with it.
C27_Witness ==
    /\ Len(returned) >= 3
    /\ parentNode.kind = "Paragraph" /\ parentNode.nodes = <<"EmphasisSpan">>

-----------------------------------------------------------------------------
(* C22: the order of the sections of a page body *)

\* The kinds whose Remarks and Example sections precede the tables, as stated.
StatedRemarksFirstKinds == {"Class", "Interface", "Namespace", "Package", "Model"}

\* The section of the stated order that a body node belongs to, on the page
\* of an item of kind `kind`: 1 stability note, 2 deprecation note, 3 summary,
\* 4 signature block, 5 heritage lines, 6 decorator blocks, then 7 and 8 for
\* remarks/examples and tables in the order stated for the kind; 0 for a
\* node of no section of the statement.
StatedSection(n, kind) ==
    LET remarks == IF kind \in StatedRemarksFirstKinds THEN 7 ELSE 8
        tables  == IF kind \in StatedRemarksFirstKinds THEN 8 ELSE 7
    IN  IF n.node = "NoteBox" /\ n.text \in {"Alpha", "Beta"} THEN 1
        ELSE IF n.node = "NoteBox" THEN 2
        ELSE IF n.node = "Summary" THEN 3
        ELSE IF n = Node("Paragraph", "Signature:") \/ n.node = "FencedCode" THEN 4
        ELSE IF \/ n \in {Node("Paragraph", "Extends: "), Node("Paragraph", "References: ")}
                \/ n.node \in {"LinkTag", "PlainText"} THEN 5
        ELSE IF \/ n = Node("Paragraph", "Decorators:")
                \/ n \in {Node("Paragraph", "decorator block " \o ToString(i)) : i \in 1..3}
             THEN 6
        ELSE IF \/ n.node = "Heading" /\ n.text \in {"Remarks", "Example"}
                                                  \cup {"Example " \o ToString(i) : i \in 1..3}
                \/ n.node = "Section" /\ n.text # "throws" THEN remarks
        ELSE IF \/ n.node = "Table"
                \/ n.node = "Heading" /\ n.text \in AllTableTitles THEN tables
        ELSE 0

\* The number of nodes of a body that are equal to n.
Occurrences(body, n) == Cardinality({j \in 1..Len(body) : body[j] = n})

\* C22: the body of a written page holds its sections in the order stability
\* note, deprecation note, summary, signature block, heritage lines,
\* decorator blocks and then, for a class, interface, namespace, package or
\* model, remarks and examples followed by the tables, for every other kind
\* the tables followed by remarks and examples; each of the sections is
\* there when the item has it, and the Remarks heading and each Example
\* heading occur exactly once.  (Stated for the most recent write.)
C22_SectionOrder ==
    LastIs("write") =>
        LET id   == LastEvent.apiItem
            item == ItemOf(id)
            body == LastEvent.content.body
            documented == item.kind \notin {"Model", "EntryPoint"}
        IN  /\ \A i, j \in 1..Len(body) :
                  (i < j /\ StatedSection(body[i], item.kind) # 0
                         /\ StatedSection(body[j], item.kind) # 0)
                  => StatedSection(body[i], item.kind) <= StatedSection(body[j], item.kind)
            /\ Occurrences(body, Node("NoteBox", item.releaseTag))
                  = (IF item.releaseTag \in {"Alpha", "Beta"} THEN 1 ELSE 0)
            /\ Occurrences(body, Node("NoteBox", "Warning: This API is now obsolete. "))
                  = (IF documented /\ item.isDeprecated THEN 1 ELSE 0)
            /\ Occurrences(body, Node("Summary", "")) = (IF item.hasSummary THEN 1 ELSE 0)
            /\ Occurrences(body, Node("Paragraph", "Signature:"))
                  = (IF item.kind \in DeclaredKinds THEN 1 ELSE 0)
            /\ Occurrences(body, Node("Paragraph", "Decorators:"))
                  = (IF documented /\ item.decorators > 0 THEN 1 ELSE 0)
            /\ \A n \in 1..3 :
                  Occurrences(body, Node("Paragraph", "decorator block " \o ToString(n)))
                      = (IF documented /\ n <= item.decorators THEN 1 ELSE 0)
            /\ Occurrences(body, Node("Heading", "Remarks"))
                  = (IF documented /\ item.hasRemarks THEN 1 ELSE 0)
            /\ Occurrences(body, Node("Section", "remarks"))
                  = (IF documented /\ item.hasRemarks THEN 1 ELSE 0)
            /\ Cardinality(ExampleHeadings(body)) = (IF documented THEN item.examples ELSE 0)
            /\ \A j, k \in ExampleHeadings(body) : body[j].text = body[k].text => j = k

\* A completed run that wrote the page of a class with stability note,
\* deprecation note, summary, signature, remarks, example and then tables
\* (Base), the page of a class with heritage line, decorators, remarks and
\* tables (Derived), and the page of a method with deprecation note,
\* signature, decorators, the Parameters table and then remarks and examples.
C22_Witness ==
    /\ Completed
    /\ \E i \in WritesNamed("Class", N_Base) :
          LET body == trace[i].content.body
          IN  /\ Len(body) >= 9
              /\ body[1] = Node("NoteBox", "Beta")
              /\ body[2] = Node("NoteBox", "Warning: This API is now obsolete. ")
              /\ body[3] = Node("Summary", "")
              /\ body[4] = Node("Paragraph", "Signature:")
              /\ body[6] = Node("Heading", "Remarks")
              /\ body[8] = Node("Heading", "Example")
              /\ \E j \in 10..Len(body) : body[j].node = "Table"
    /\ \E i \in WritesNamed("Class", N_Derived) :
          LET body == trace[i].content.body
          IN  \E h, d, r, t \in 1..Len(body) :
                  /\ h < d /\ d < r /\ r < t
                  /\ body[h] = Node("Paragraph", "Extends: ")
                  /\ body[d] = Node("Paragraph", "Decorators:")
                  /\ body[r] = Node("Heading", "Remarks")
                  /\ body[t].node = "Table"
    /\ \E i \in WritesNamed("Method", N_run) :
          LET body == trace[i].content.body
          IN  \E d, t, r \in 1..Len(body) :
                  /\ d < t /\ t < r
                  /\ body[1] = Node("NoteBox", "Warning: This API is now obsolete. ")
                  /\ body[d] = Node("Paragraph", "decorator block 2")
                  /\ body[t].node = "Table" /\ body[t].text = "Parameters"
                  /\ body[r] = Node("Heading", "Remarks")
                  /\ body[Len(body)] = Node("Section", "example block 2")

-----------------------------------------------------------------------------
(* C23: the tables of a namespace or package page *)

\* The kinds of children that a namespace or package page lists.
ListedChildKinds ==
    {"Class", "Enum", "Function", "Interface", "Namespace", "Variable", "TypeAlias"}

\* The table in which a child is listed, as stated.
StatedTableOfChild(member) ==
    CASE member.kind = "Class" /\ member.isAbstract -> "Abstract Classes"
      [] member.kind = "Class" -> "Classes"
      [] member.kind = "Enum" -> "Enumerations"
      [] member.kind = "Function" -> "Functions"
      [] member.kind = "Interface" -> "Interfaces"
      [] member.kind = "Namespace" -> "Namespaces"
      [] member.kind = "Variable" -> "Variables"
      [] member.kind = "TypeAlias" -> "Type Aliases"
      [] OTHER -> ""

\* The positions of the tables of a body other than the Entrypoints table.
ChildTables(body) ==
    {j \in 1..Len(body) : body[j].node = "Table" /\ body[j].text # "Entrypoints"}

\* The <<table, row>> positions of the rows of a child in the child tables.
RowsOfChild(body, apiMember) ==
    {<<j, r>> \in ChildTables(body) \X (1..Cardinality(AllIds)) :
        r <= Len(body[j].rows) /\ body[j].rows[r].apiItem = apiMember}

\* The position of a title in a sequence of titles (0: not among them).
TitleIndex(titles, title) ==
    IF \E n \in 1..Len(titles) : titles[n] = title
    THEN CHOOSE n \in 1..Len(titles) : titles[n] = title
    ELSE 0

\* On the page of a namespace or package every child of a listed kind is a
\* row of exactly one table, the one stated for it; every table has rows and
\* is preceded by its heading; and the tables follow one another in the
\* order of `titles`.
ChildTablesInOrder(titles) ==
    (LastIs("write") /\ ItemOf(LastEvent.apiItem).kind \in {"Namespace", "Package"}) =>
        LET id   == LastEvent.apiItem
            body == LastEvent.content.body
            apiMembers == ApiMembersOf(id)
        IN  /\ \A n \in 1..Len(apiMembers) :
                  LET member == ItemOf(apiMembers[n])
                      rows   == RowsOfChild(body, apiMembers[n])
                  IN  IF member.kind \in ListedChildKinds
                      THEN /\ Cardinality(rows) = 1
                           /\ \A jr \in rows : body[jr[1]].text = StatedTableOfChild(member)
                      ELSE rows = {}
            /\ \A j \in ChildTables(body) :
                  /\ body[j].rows # <<>>
                  /\ TitleIndex(titles, body[j].text) # 0
                  /\ j > 1 /\ body[j - 1] = Node("Heading", body[j].text)
            /\ \A j, k \in ChildTables(body) :
                  j < k => TitleIndex(titles, body[j].text) < TitleIndex(titles, body[k].text)

\* C23 as stated: the non-empty tables appear in the order Abstract Classes,
\* Classes, Enumerations, Functions, Interfaces, Namespaces, Variables, Type
\* Aliases.
C23_TablesAsStated ==
    ChildTablesInOrder(<<"Abstract Classes", "Classes", "Enumerations", "Functions",
                         "Interfaces", "Namespaces", "Variables", "Type Aliases">>)

\* C23 (amended): on a namespace or package page every child of kind Class,
\* Enum, Function, Interface, Namespace, Variable or TypeAlias is a row of
\* exactly one table (an abstract class of 'Abstract Classes' only), and the
\* non-empty tables appear in the order Classes, Abstract Classes,
\* Enumerations, Functions, Interfaces, Namespaces, Variables, Type Aliases.
C23_TablesInCodeOrder ==
    ChildTablesInOrder(<<"Classes", "Abstract Classes", "Enumerations", "Functions",
                         "Interfaces", "Namespaces", "Variables", "Type Aliases">>)

\* The page of package lib has been written with the table of its classes
\* directly before the table of its abstract class Base, and with six more
\* tables behind them.
C23_Witness ==
    /\ LastIs("write")
    /\ ItemOf(LastEvent.apiItem).kind = "Package"
    /\ LET body == LastEvent.content.body
       IN  \E j \in ChildTables(body) :
              /\ body[j].text = "Classes" /\ Len(body[j].rows) >= 2
              /\ j + 2 \in ChildTables(body)
              /\ body[j + 2].text = "Abstract Classes"
              /\ body[j + 2].rows[1].apiItem = <<1, 1, 1>>
              /\ Cardinality(ChildTables(body)) = 8

-----------------------------------------------------------------------------
(* C24: the Entrypoints table and the pages of the entry points *)

\* The positions of the Entrypoints tables of a body.
EntrypointsTables(body) ==
    {j \in 1..Len(body) : body[j].node = "Table" /\ body[j].text = "Entrypoints"}

\* On a written package page there is an Entrypoints table exactly when the
\* package has more than one entry point; the table follows its heading and
\* has one row per entry point, in their order, each linked to the page of
\* its entry point, the one with the empty path to the file of the package
\* page itself; a namespace page has no Entrypoints table.
EntrypointsTableAsStated ==
    LastIs("write") =>
        LET id   == LastEvent.apiItem
            item == ItemOf(id)
            body == LastEvent.content.body
            at   == EntrypointsTables(body)
        IN  /\ item.kind = "Package" =>
                  /\ Cardinality(at) = (IF Len(item.members) > 1 THEN 1 ELSE 0)
                  /\ \A j \in at :
                        /\ j > 1 /\ body[j - 1] = Node("Heading", "Entrypoints")
                        /\ Len(body[j].rows) = Len(item.members)
                        /\ \A r \in 1..Len(body[j].rows) :
                              /\ body[j].rows[r].apiItem = id \o <<r>>
                              /\ body[j].rows[r].url = _getLinkFilenameForApiItem(id \o <<r>>)
                              /\ IsRootEntryPoint(id \o <<r>>) =>
                                    /\ body[j].rows[r].url = _getLinkFilenameForApiItem(id)
                                    /\ pathJoin(outputFolder, _getFilenameForApiItem(id \o <<r>>))
                                           = LastEvent.filename
            /\ item.kind # "Package" => at = {}

\* The errors of the plugin, of the emitter and of the file system.
EnvironmentErrors ==
    {"Failed to load plugin", "emitWithFrontMatter failed",
     "onBeforeWritePage failed", "writeFile failed"}

\* The entry points with a non-empty import path.
NamedEntryPointIds == {id \in EntryPointIds : ItemOf(id).name # <<>>}

\* The write events of the pages of the members of a package's entry points.
MemberWritesOf(pkg) ==
    {i \in EventsOf("write") :
        /\ Len(trace[i].apiItem) > Len(pkg) + 1
        /\ SubSeq(trace[i].apiItem, 1, Len(pkg)) = pkg}

\* The page of an entry point with a non-empty path is written before every
\* member page of its package.
EntryPointPagesFirst ==
    \A ep \in NamedEntryPointIds :
        \A i \in MemberWritesOf(ParentId(ep)) :
            \E w \in WritesOfItem(ep) : w < i

\* When generateFiles has ended, by returning or by an error of its own
\* computation, every entry point with a non-empty path has its page.
EntryPointPagesWritten ==
    (pc = "done" \/ (pc = "failed" /\ error \notin EnvironmentErrors)) =>
        \A ep \in NamedEntryPointIds : WritesOfItem(ep) # {}

\* C24: a package page has an Entrypoints table if and only if the package
\* has more than one entry point, with exactly one row per entry point (the
\* row of the empty-path one links to the package's own _root page); a
\* namespace page never has one; every entry point with a non-empty path
\* gets its own page, written before the member pages of the package.
C24_EntryPoints ==
    /\ EntrypointsTableAsStated
    /\ EntryPointPagesFirst
    /\ EntryPointPagesWritten

\* What holds of C24 in every run: the table, and the order of the pages
\* that are written.
C24_TableAndOrder ==
    /\ EntrypointsTableAsStated
    /\ EntryPointPagesFirst
    /\ Completed => \A ep \in NamedEntryPointIds : WritesOfItem(ep) # {}

\* A completed run over package lib with two entry points: its page has the
\* Entrypoints table with two rows, and the page of entry point e2 was
\* written before the first member page.
C24_TableAndOrder_Witness ==
    /\ Completed
    /\ \E pkg \in PackageIds :
          /\ Len(ItemOf(pkg).members) = 2
          /\ \E i \in WritesOfItem(pkg) :
                \E j \in EntrypointsTables(trace[i].content.body) :
                    Len(trace[i].content.body[j].rows) = 2
          /\ MemberWritesOf(pkg) # {}
          /\ \A ep \in NamedEntryPointIds : ParentId(ep) = pkg => WritesOfItem(ep) # {}

-----------------------------------------------------------------------------
(* C25: members without a case in the switch of their container *)

\* The kind of the page whose member loop iterates over an item: the kind of
\* its parent, and package for the members of an entry point; "" for the
\* model root.
IteratingKind(id) ==
    IF id = <<>> THEN ""
    ELSE IF ItemOf(ParentId(id)).kind = "EntryPoint" THEN "Package"
    ELSE ItemOf(ParentId(id)).kind

\* A member that a table-building switch iterates over and has no case for.
IsUncasedMember(id) ==
    /\ IteratingKind(id) \in {"Model", "Package", "Namespace", "Class", "Interface"}
    /\ ItemOf(id).kind # "EntryPoint"
    /\ TableOf(IteratingKind(id), ItemOf(id)) = ""

UncasedMemberIds == {id \in AllIds : IsUncasedMember(id)}

\* The items of the rows of the tables of a body.
RowItems(body) ==
    UNION {{body[j].rows[r].apiItem : r \in 1..Len(body[j].rows)} :
              j \in {n \in 1..Len(body) : body[n].node = "Table"}}

\* The kinds of items of an API model.
ApiItemKinds ==
    {"CallSignature", "Class", "Constructor", "ConstructSignature", "EntryPoint",
     "Enum", "EnumMember", "Function", "IndexSignature", "Interface", "Method",
     "MethodSignature", "Model", "Namespace", "Package", "Property",
     "PropertySignature", "TypeAlias", "Variable", "None"}

\* C25: a member whose kind has no case in the table-building switch of its
\* container is the row of no table of a written page, no page is built,
\* hooked or written for it, and no error is raised for it: the run raises
\* no 'Unsupported API item kind' error at all, and the loop goes on to the
\* next member, so that a run that completes has written the page of the
\* container.
C25_UncasedMembersSkipped ==
    /\ stack # <<>> =>
          /\ ~IsUncasedMember(Top.apiItem)
          /\ \A m \in 1..Len(Top.listed) : ~IsUncasedMember(Top.listed[m])
    /\ Len(trace) > 0 =>
          /\ ~IsUncasedMember(LastEvent.apiItem)
          /\ LastEvent.type = "write" =>
                \A id \in RowItems(LastEvent.content.body) : ~IsUncasedMember(id)
    /\ error \notin {"Unsupported API item kind: " \o kind : kind \in ApiItemKinds}
    /\ Completed =>
          \A id \in UncasedMemberIds :
              /\ WritesOfItem(id) = {}
              /\ ItemOf(ParentId(id)).kind \in {"Class", "Interface", "Namespace"} =>
                    WritesOfItem(ParentId(id)) # {}

\* A completed run that wrote the page of interface IShape, which has a call
\* signature and an index signature, with the rows of its three other
\* members, and the page of the construct signature behind them.
C25_Witness ==
    /\ Completed /\ error = NoError
    /\ \E i \in WritesNamed("Interface", N_IShape) :
          LET id == trace[i].apiItem
          IN  /\ {ItemOf(m).kind : m \in UncasedMemberIds \cap {id \o <<k>> : k \in 1..5}}
                     = {"CallSignature", "IndexSignature"}
              /\ Cardinality(RowItems(trace[i].content.body)) = 3
              /\ WritesOfItem(id \o <<5>>) # {}

-----------------------------------------------------------------------------
(* C26: runs of the command-line action, which passes no configuration *)

\* A run started by HugoAction.onExecute: documenterConfig is undefined.
StartedByAction == ~documenterConfig.present

\* The lines that the inheritance query of some class or interface of the
\* tree would log.
InheritanceLogTexts ==
    UNION {{"Diagnostic message for findMembersWithInheritance: "
                \o findMembersWithInheritance(id).messages[n] :
                n \in 1..Len(findMembersWithInheritance(id).messages)} :
           id \in {c \in AllIds : ItemOf(c).kind \in {"Class", "Interface"}}}

\* C26: in every state of a run started by the command-line action no plugin
\* feature is loaded and the load does not fail, the last event is neither
\* an invocation of the pre-write hook or of the finished hook nor a logged
\* message of the inheritance query, and a page just written has CRLF line
\* endings, no advisory paragraph and, for a class or interface, rows of its
\* own declared members only, one per member with a case, none of them
\* marked as inherited; the trace of a completed run holds no hook
\* invocation and no line of the inheritance query, and every write of it
\* is CRLF.
C26_NoConfiguration ==
    StartedByAction =>
        /\ feature = FALSE
        /\ ~showInheritedMembers
        /\ error \notin {"Failed to load plugin", "onBeforeWritePage failed"}
        /\ Len(trace) > 0 =>
              /\ LastEvent.type \notin {"before", "finished"}
              /\ LastEvent.type = "log" => LastEvent.text \notin InheritanceLogTexts
        /\ LastIs("write") =>
              LET id   == LastEvent.apiItem
                  body == LastEvent.content.body
              IN  /\ LastEvent.newline = "CrLf"
                  /\ LastEvent.content.pluginNote = ""
                  /\ \A j \in 1..Len(body) : body[j] # Advisory
                  /\ ItemOf(id).kind \in {"Class", "Interface"} =>
                        /\ RowItems(body)
                              = {m \in {id \o <<k>> : k \in 1..Len(ItemOf(id).members)} :
                                    TableOf(ItemOf(id).kind, ItemOf(m)) # ""}
                        /\ \A j \in 1..Len(body) :
                              \A r \in 1..Len(body[j].rows) :
                                  body[j].rows[r].inheritedFrom = ""
        /\ Completed =>
              /\ EventsOf("before") \cup EventsOf("finished") = {}
              /\ \A i \in EventsOf("log") : trace[i].text \notin InheritanceLogTexts
              /\ \A i \in EventsOf("write") : trace[i].newline = "CrLf"

\* A completed run without configuration that wrote the page of class
\* Derived, which extends Base, with the rows of its own four members, and
\* the page of class Orphan, whose base class is outside the model.
C26_Witness ==
    /\ StartedByAction /\ Completed
    /\ \E i \in WritesNamed("Class", N_Derived) :
          /\ Cardinality(RowItems(trace[i].content.body)) = 4
          /\ trace[i].newline = "CrLf"
    /\ WritesNamed("Class", N_Orphan) # {}
    /\ Len(trace) > 20

=============================================================================
